---- MODULE Spec2Model ----
(***************************************************************************)
(* Model of the AgentOS orchestration runtime (fygarcia/AgentOS).          *)
(*                                                                         *)
(* One run of core/engine.py: the driver builds the initial execution      *)
(* state, LangGraph runs classifier -> (responder | planner -> steps),     *)
(* every node is a function  state -> partial update  that the driver      *)
(* merges into the state, and the engine finalizes the agent's memory      *)
(* (LOG.md, NOW.md) on both the normal and the exceptional exit.           *)
(***************************************************************************)
EXTENDS Integers, Sequences, FiniteSets, TLC

VARIABLES
    st,         \* the ExecutionState dict threaded through the graph
    pc,         \* position of the driver: the node that runs next
    provider,   \* config.LLM_PROVIDER, loaded once at import time
    unsafe_exec_flag, \* the deployment's unsafe code-execution switch; no
                \* line of config.py or actor.py reads it
    executed,   \* history: the nodes that started executing, in order
    console,    \* what the last node printed about its own outcome
    log,        \* LOG.md of the agent: entry types, in append order
    now,        \* NOW.md of the agent: its Status line
    result,     \* what run_agent / run_agent_with_instance returned
    registry,   \* a SkillRegistry: its four indices
    disk,       \* the memory directories on disk, by path
    lancedb_available, \* LANCEDB_AVAILABLE: whether `import lancedb` worked
    call,       \* the last call made on a registry or memory manager
    calls,      \* how many state-changing calls have been made on them
    tracer      \* the process-wide SimpleTracer and the traces file

vars == <<st, pc, provider, unsafe_exec_flag, executed, console, log, now, result,
          registry, disk, lancedb_available, call, calls, tracer>>

\* the settings a process starts with
config == <<provider, unsafe_exec_flag>>

\* what one run of the engine works on
run_state == <<st, pc, executed, console, log, now, result>>

\* the registry and the memory managers exercised on their own
library_state == <<registry, disk, lancedb_available, call, calls>>

(***************************************************************************)
(* Bounds                                                                  *)
(***************************************************************************)
MaxPlan == 3        \* longest plan the parser model returns
MaxRegistrations == 3   \* register_skill calls made on one registry
MaxMemoryOps == 3   \* writes made through the memory managers

(***************************************************************************)
(* Values                                                                  *)
(***************************************************************************)
None == "None"
END == "__end__"

Providers == {"ollama", "mock", "google"}

PlanRoles == {"Actor", "Auditor"}
AnyRoles == PlanRoles \cup {"Reviewer"}

\* instruction texts, as far as the Actor's regular expression tells them apart
Instructions == {"Create the file hello.txt",
                 "Use skill file-operations to write hello.txt",
                 "Run web-search for the latest prices"}

RegisteredSkills == {"file-operations"}

\* a step the Auditor verifies; its wording plays no part in the control flow
AuditInstructions == {"Verify that hello.txt exists"}

\* the step mappings the parser model can produce
Steps == [role : {"Actor"}, instruction : Instructions]
         \cup [role : AnyRoles \ {"Actor"}, instruction : AuditInstructions]

SeqsUpTo(S, n) == UNION {[1..k -> S] : k \in 0..n}

\* what the parser model can hand back as the "plan" array
CandidatePlans == SeqsUpTo(Steps, MaxPlan)

(***************************************************************************)
(* dict helpers                                                            *)
(***************************************************************************)
\* state.get(key, default)
Get(d, key, default) == IF key \in DOMAIN d THEN d[key] ELSE default

\* the driver merges a node's partial update into the state
Merge(d, u) == [k \in (DOMAIN d) \cup (DOMAIN u) |->
                    IF k \in DOMAIN u THEN u[k] ELSE d[k]]

\* f"step_{idx}"
StepKey(i) == <<"step_", i>>

\* tool_outputs[key] = value
Put(d, key, value) == [k \in (DOMAIN d) \cup {key} |->
                          IF k = key THEN value ELSE d[k]]

EmptyDict == [k \in {} |-> None]

\* Python truthiness of an Optional[str]
Truthy(v) == v # None /\ v # ""

\* a node either returns a partial update or raises; prints is what it
\* reports on the console about its own outcome
Returns(u, p) == [raises |-> FALSE, update |-> u, prints |-> p]
Raises(p) == [raises |-> TRUE, update |-> EmptyDict, prints |-> p]

(***************************************************************************)
(* Routers (core/graph.py)                                                 *)
(***************************************************************************)
\* variant: CHAT is planned like a task
route_intent_chat_planned(state) ==
    LET intent == Get(state, "intent_type", "TASK")
    IN  IF intent \in {"TASK", "CHAT"} THEN "planner" ELSE "responder"

route_intent(state) ==
    LET intent == Get(state, "intent_type", "TASK")
    IN  IF intent = "TASK" THEN "planner" ELSE "responder"

\* variant: an unknown role falls through to the Actor
route_step_unknown_to_actor(state) ==
    LET idx == Get(state, "current_step_index", 0)
        plan == Get(state, "plan", <<>>)
    IN  IF idx >= Len(plan) THEN END
        ELSE LET role == plan[idx + 1].role
             IN  IF role = "Auditor" THEN "auditor" ELSE "actor"

\* variant: the end test is off by one
route_step_early(state) ==
    LET idx == Get(state, "current_step_index", 0)
        plan == Get(state, "plan", <<>>)
    IN  IF idx + 1 >= Len(plan) THEN END
        ELSE LET role == plan[idx + 1].role
             IN  IF role = "Actor" THEN "actor"
                 ELSE IF role = "Auditor" THEN "auditor"
                 ELSE END

route_step(state) ==
    LET idx == Get(state, "current_step_index", 0)
        plan == Get(state, "plan", <<>>)
    IN  IF idx >= Len(plan) THEN END
        ELSE LET role == plan[idx + 1].role
             IN  IF role = "Actor" THEN "actor"
                 ELSE IF role = "Auditor" THEN "auditor"
                 ELSE END

(***************************************************************************)
(* Classifier (core/nodes/classifier.py)                                   *)
(***************************************************************************)
\* intent_type strings the parser model can put in its JSON answer
RawIntents == {"TASK", "task", "QUESTION", "Question", "CHAT", "chat", "COMMAND"}

\* str.upper() on those strings
upper(s) ==
    CASE s \in {"TASK", "task"} -> "TASK"
      [] s \in {"QUESTION", "Question"} -> "QUESTION"
      [] s \in {"CHAT", "chat"} -> "CHAT"
      [] OTHER -> s

\* outcomes of requests.post + raise_for_status + response.json()["response"]
\* + json.loads
ClassifierReplies ==
    [kind : {"http_error", "not_json", "not_object", "no_key", "null_intent"},
     intent : {"-"}]
    \cup [kind : {"intent"}, intent : RawIntents]

\* variant: no except clause around the LLM call
classifier_node_unguarded(state, reply) ==
    IF reply.kind \in {"http_error", "not_json", "not_object", "null_intent"}
    THEN Raises("classifier: raised")
    ELSE LET raw == IF reply.kind = "no_key" THEN "TASK" ELSE reply.intent
         IN  Returns([intent_type |-> upper(raw)], "classifier: detected intent")

classifier_node(state, reply) ==
    IF reply.kind \in {"http_error", "not_json", "not_object", "null_intent"}
    THEN \* except Exception: defaulting to TASK
         Returns([intent_type |-> "TASK"], "classifier: error, defaulting to TASK")
    ELSE LET raw == IF reply.kind = "no_key" THEN "TASK" ELSE reply.intent
         IN  Returns([intent_type |-> upper(raw)], "classifier: detected intent")

(***************************************************************************)
(* Responder (core/nodes/responder.py)                                     *)
(***************************************************************************)
Apology == "I'm sorry, I encountered an error while generating a response."

Answers == {"", "Paris."}

ResponderReplies ==
    [kind : {"http_error", "no_response_key", "null_response"}, text : {"-"}]
    \cup [kind : {"answer"}, text : Answers]

\* variant: the except clause leaves final_response empty
responder_node_no_apology(state, reply) ==
    IF reply.kind = "answer"
    THEN Returns([final_response |-> reply.text], "responder: generated response")
    ELSE Returns([final_response |-> None], "responder: error")

responder_node(state, reply) ==
    IF reply.kind = "answer"
    THEN Returns([final_response |-> reply.text], "responder: generated response")
    ELSE Returns([final_response |-> Apology], "responder: error")

(***************************************************************************)
(* Planner (core/nodes/planner.py, core/two_stage_client.py)               *)
(***************************************************************************)
\* the Plan schema: every step's role is one of the two literals
PlanSchemaValid(p) == \A i \in 1..Len(p) : p[i].role \in PlanRoles

\* outcomes of the planner's LLM calls: a transport error in either stage,
\* a stage-2 answer that is not the JSON of a plan, or a candidate plan
PlannerReplies ==
    [kind : {"llm_error", "invalid_json"}, plan : {<<>>}]
    \cup [kind : {"plan"}, plan : CandidatePlans]

\* schema.model_validate_json(stage2_response) raises or returns the plan
generate_with_reasoning(reply) ==
    IF reply.kind = "plan" /\ PlanSchemaValid(reply.plan)
    THEN [ok |-> TRUE, plan |-> reply.plan]
    ELSE [ok |-> FALSE, plan |-> <<>>]

\* variant: the except clause re-raises
planner_node_reraises(state, prov, reply) ==
    IF prov = "ollama"
    THEN LET plan_obj == generate_with_reasoning(reply)
         IN  IF plan_obj.ok
             THEN Returns([plan |-> plan_obj.plan,
                           current_step_index |-> 0,
                           objective |-> "objective"],
                          "planner: generated plan")
             ELSE Raises("planner: error")
    ELSE IF reply.kind = "llm_error"
         THEN Raises("planner: raised")
         ELSE Returns([plan |-> <<>>, current_step_index |-> 0],
                      "planner: fallback provider")

planner_node(state, prov, reply) ==
    IF prov = "ollama"
    THEN LET plan_obj == generate_with_reasoning(reply)
         IN  IF plan_obj.ok
             THEN Returns([plan |-> plan_obj.plan,
                           current_step_index |-> 0,
                           objective |-> "objective"],
                          "planner: generated plan")
             ELSE \* except Exception
                  Returns([plan |-> <<>>], "planner: error")
    ELSE \* other providers: agent.run_sync is not guarded, and the agent
         \* has no output type, so result.output has no plan attribute
         IF reply.kind = "llm_error"
         THEN Raises("planner: raised")
         ELSE Returns([plan |-> <<>>, current_step_index |-> 0],
                      "planner: fallback provider")

(***************************************************************************)
(* Actor (core/nodes/actor.py)                                             *)
(***************************************************************************)
NoMatch == "<no match>"

\* re.search(r'(?:use|execute|run)\s+(?:skill\s+)?["\']?(\w[\w-]+)', ...).group(1)
skill_match(instruction) ==
    CASE instruction = "Use skill file-operations to write hello.txt" -> "file-operations"
      [] instruction = "Run web-search for the latest prices" -> "web-search"
      [] OTHER -> NoMatch

\* registry.has_skill
has_skill(name) == name \in RegisteredSkills

\* Skill.execute without parameters: the hook's result or one of its errors
SkillOutcomes == {"ok", "missing_required_parameter", "execution_failed", "no_runtime"}

\* llm.generate never raises (OllamaLLM returns "" on error); the generated
\* code either runs or raises inside exec
ActorLLMReplies == {"", "code_ok", "code_raises"}

exec_raises(code) == code = "code_raises"

\* the registry error the Actor prints before "falling back to code generation"
SkillFailedPrint(skill_outcome) ==
    CASE skill_outcome = "missing_required_parameter" ->
             "actor: skill failed (missing required parameter), fell back to code"
      [] skill_outcome = "execution_failed" ->
             "actor: skill failed (execution failed), fell back to code"
      [] OTHER ->
             "actor: skill failed (no execute function), fell back to code"

\* what str() of a registry error would put in tool_outputs
RegistryErrors == {"Missing required parameter: operation",
                   "Skill 'file-operations' execution failed: boom"}

\* variant: a failed execution advances the cursor without recording output
actor_node_drops_error(state, skill_outcome, code) ==
    LET idx == Get(state, "current_step_index", 0)
        plan == Get(state, "plan", <<>>)
    IN  IF idx >= Len(plan) THEN Returns(EmptyDict, "actor: nothing to do")
        ELSE
        LET step == plan[idx + 1]
            skill_name == skill_match(step.instruction)
            tool_outputs == Get(state, "tool_outputs", EmptyDict)
        IN  IF step.role # "Actor" THEN Returns(EmptyDict, "actor: not my step")
            ELSE IF /\ "agent_instance" \in DOMAIN state
                    /\ skill_name # NoMatch
                    /\ has_skill(skill_name)
                    /\ skill_outcome = "ok"
            THEN Returns([tool_outputs |-> Put(tool_outputs, StepKey(idx),
                                              "Skill executed: ok"),
                          current_step_index |-> idx + 1],
                         "actor: skill executed")
            ELSE IF exec_raises(code)
                 THEN Returns([current_step_index |-> idx + 1],
                              "actor: execution failed")
                 ELSE Returns([tool_outputs |-> Put(tool_outputs, StepKey(idx), "Success"),
                               current_step_index |-> idx + 1],
                              "actor: code executed")

\* variant: the skill call is not wrapped in try/except
actor_node_skill_unguarded(state, skill_outcome, code) ==
    LET idx == Get(state, "current_step_index", 0)
        plan == Get(state, "plan", <<>>)
    IN  IF idx >= Len(plan) THEN Returns(EmptyDict, "actor: nothing to do")
        ELSE
        LET step == plan[idx + 1]
            skill_name == skill_match(step.instruction)
            tool_outputs == Get(state, "tool_outputs", EmptyDict)
            skill_invoked == /\ "agent_instance" \in DOMAIN state
                             /\ skill_name # NoMatch
                             /\ has_skill(skill_name)
        IN  IF step.role # "Actor" THEN Returns(EmptyDict, "actor: not my step")
            ELSE IF skill_invoked /\ skill_outcome = "ok"
            THEN Returns([tool_outputs |-> Put(tool_outputs, StepKey(idx),
                                              "Skill executed: ok"),
                          current_step_index |-> idx + 1],
                         "actor: skill executed")
            ELSE IF skill_invoked THEN Raises(SkillFailedPrint(skill_outcome))
            ELSE \* fallback: generate and execute code
                 LET output == IF exec_raises(code) THEN "Error: boom" ELSE "Success"
                 IN  Returns([tool_outputs |-> Put(tool_outputs, StepKey(idx), output),
                              current_step_index |-> idx + 1],
                             IF skill_invoked THEN SkillFailedPrint(skill_outcome)
                             ELSE IF exec_raises(code) THEN "actor: execution failed"
                             ELSE "actor: code executed")

actor_node(state, skill_outcome, code) ==
    LET idx == Get(state, "current_step_index", 0)
        plan == Get(state, "plan", <<>>)
    IN  IF idx >= Len(plan) THEN Returns(EmptyDict, "actor: nothing to do")
        ELSE
        LET step == plan[idx + 1]
            skill_name == skill_match(step.instruction)
            tool_outputs == Get(state, "tool_outputs", EmptyDict)
            skill_invoked == /\ "agent_instance" \in DOMAIN state
                             /\ skill_name # NoMatch
                             /\ has_skill(skill_name)
        IN  IF step.role # "Actor" THEN Returns(EmptyDict, "actor: not my step")
            ELSE IF skill_invoked /\ skill_outcome = "ok"
            THEN Returns([tool_outputs |-> Put(tool_outputs, StepKey(idx),
                                              "Skill executed: ok"),
                          current_step_index |-> idx + 1],
                         "actor: skill executed")
            ELSE \* fallback: generate and execute code
                 LET output == IF exec_raises(code) THEN "Error: boom" ELSE "Success"
                 IN  Returns([tool_outputs |-> Put(tool_outputs, StepKey(idx), output),
                              current_step_index |-> idx + 1],
                             IF skill_invoked THEN SkillFailedPrint(skill_outcome)
                             ELSE IF exec_raises(code) THEN "actor: execution failed"
                             ELSE "actor: code executed")

(***************************************************************************)
(* Auditor (core/nodes/auditor.py, core/audit_strategies.py)               *)
(***************************************************************************)
FileStrategies == {"verify_file_exists", "verify_file_content_contains",
                   "verify_file_does_not_exist"}

StrategyNames == FileStrategies \cup {"verify_tool_output_success",
                                      "verify_everything", None}

AuditResult(passed, message) == [passed |-> passed, message |-> message]

\* what the filesystem holds at the path the model's args name
PathStates == {"absent", "match", "mismatch", "unreadable"}

verify_file_exists(path) ==
    IF path # "absent"
    THEN AuditResult(TRUE, "File exists.")
    ELSE AuditResult(FALSE, "File NOT found.")

verify_file_content_contains(path) ==
    IF path = "absent" THEN AuditResult(FALSE, "File does not exist.")
    ELSE IF path = "unreadable" THEN AuditResult(FALSE, "Error reading file.")
    ELSE IF path = "match"
    THEN AuditResult(TRUE, "File contains expected text.")
    ELSE AuditResult(FALSE, "File content mismatch.")

verify_file_does_not_exist(path) ==
    IF path = "absent"
    THEN AuditResult(TRUE, "File correctly does not exist.")
    ELSE AuditResult(FALSE, "File exists but should not.")

\* "error" / "exception" / "failed" in previous_output.lower()
verify_tool_output_success(previous_output) ==
    IF previous_output \in {"Error: boom"}
    THEN AuditResult(FALSE, "Previous step reported error.")
    ELSE AuditResult(TRUE, "Previous step executed successfully.")

\* the parser model's answer (a failed request, an answer that does not
\* parse, a strategy with args that are no object, or a strategy with
\* usable args) and what the filesystem holds when a file strategy is run
AuditorReplies ==
    [kind : {"http_error", "not_json", "not_object"}, strategy : {None},
     path : {"absent"}]
    \cup [kind : {"bad_args"}, strategy : StrategyNames, path : {"absent"}]
    \cup [kind : {"strategy"}, strategy : StrategyNames, path : PathStates]

\* "[Auditor] Selected strategy: ..." and "[Auditor] Result: ... Message: ..."
AuditorPrint(strategy_name, audit_result) ==
    "auditor: " \o strategy_name \o ": "
        \o (IF audit_result.passed THEN "PASS" ELSE "FAIL")
        \o ": " \o audit_result.message

\* variant: the table has no entry for verify_file_does_not_exist
dispatch_two_file_strategies(strategy_name, path, prev_output) ==
    IF strategy_name = "verify_file_exists" THEN verify_file_exists(path)
    ELSE IF strategy_name = "verify_file_content_contains"
    THEN verify_file_content_contains(path)
    ELSE verify_tool_output_success(prev_output)
\* the hardcoded dispatch
dispatch(strategy_name, path, prev_output) ==
    IF strategy_name = "verify_file_exists" THEN verify_file_exists(path)
    ELSE IF strategy_name = "verify_file_content_contains"
    THEN verify_file_content_contains(path)
    ELSE IF strategy_name = "verify_file_does_not_exist"
    THEN verify_file_does_not_exist(path)
    ELSE verify_tool_output_success(prev_output)

\* args.get(...) raises when args is no object; only the file strategies
\* read args
args_raise(reply) ==
    reply.kind = "bad_args" /\ reply.strategy \in FileStrategies

\* variant: the cursor is left where it is
auditor_node_stays(state, reply) ==
    LET idx == Get(state, "current_step_index", 0)
        plan == Get(state, "plan", <<>>)
    IN  IF idx >= Len(plan) THEN Returns(EmptyDict, "auditor: nothing to do")
        ELSE IF plan[idx + 1].role # "Auditor"
        THEN Returns(EmptyDict, "auditor: not my step")
        ELSE Returns([current_step_index |-> idx],
                     "auditor: verification failed")

\* variant: the cursor jumps over the next step
auditor_node_jump(state, reply) ==
    LET idx == Get(state, "current_step_index", 0)
        plan == Get(state, "plan", <<>>)
    IN  IF idx >= Len(plan) THEN Returns(EmptyDict, "auditor: nothing to do")
        ELSE IF plan[idx + 1].role # "Auditor"
        THEN Returns(EmptyDict, "auditor: not my step")
        ELSE Returns([current_step_index |-> idx + 2], "auditor: PASS")

\* variant: no except clause around the verification
auditor_node_unguarded(state, reply) ==
    LET idx == Get(state, "current_step_index", 0)
        plan == Get(state, "plan", <<>>)
        tool_outputs == Get(state, "tool_outputs", EmptyDict)
    IN  IF idx >= Len(plan) THEN Returns(EmptyDict, "auditor: nothing to do")
        ELSE IF plan[idx + 1].role # "Auditor"
        THEN Returns(EmptyDict, "auditor: not my step")
        ELSE IF reply.kind \notin {"strategy", "bad_args"} \/ args_raise(reply)
        THEN Raises("auditor: raised")
        ELSE
        LET prev_output == Get(tool_outputs, StepKey(idx - 1), "")
            audit_result == dispatch(reply.strategy, reply.path, prev_output)
        IN  Returns([current_step_index |-> idx + 1],
                    AuditorPrint(reply.strategy, audit_result))

auditor_node(state, reply) ==
    LET idx == Get(state, "current_step_index", 0)
        plan == Get(state, "plan", <<>>)
        tool_outputs == Get(state, "tool_outputs", EmptyDict)
    IN  IF idx >= Len(plan) THEN Returns(EmptyDict, "auditor: nothing to do")
        ELSE IF plan[idx + 1].role # "Auditor"
        THEN Returns(EmptyDict, "auditor: not my step")
        ELSE
        LET prev_output == Get(tool_outputs, StepKey(idx - 1), "")
            audit_result == dispatch(reply.strategy, reply.path, prev_output)
        IN  Returns([current_step_index |-> idx + 1],
                    IF reply.kind \notin {"strategy", "bad_args"}
                       \/ args_raise(reply)
                    THEN \* except Exception
                         "auditor: verification failed"
                    ELSE AuditorPrint(reply.strategy, audit_result))

(***************************************************************************)
(* Memory manager, as far as the engine uses it (core/memory_manager.py)   *)
(***************************************************************************)
\* append_log: one entry block at the end of LOG.md
append_log(l, entry_type) == Append(l, entry_type)

\* update_now: overwrite NOW.md, then log the status change
update_now_log(l) == append_log(l, "SYSTEM")

StatusIdle == "Idle"
StatusCompleted == "Idle - Task completed"
StatusRecovery == "Error encountered - Recovery needed"

(***************************************************************************)
(* Memory managers on their own directories (core/memory_manager.py)       *)
(***************************************************************************)
AgentNames == {"agent1", "agent2"}

\* variant: the directory does not depend on the agent name
memory_path_shared(agent_name) == <<".", "agents", "memory">>

\* Path(f"./agents/{agent_name}") / "memory", as path components
memory_path(agent_name) == <<".", "agents", agent_name, "memory">>

\* f"{self.agent_name}_memory"
table_name(agent_name) == <<agent_name, "_memory">>

\* NOW.md as update_now writes it, line by line; the timestamp is left out
\* of the "Updated:" line
NowFile(new_status, next_steps) ==
    <<  <<"# Current Status">>, <<"Status: ", new_status>>, <<"Updated: ">>  >>
    \o (IF next_steps # <<>>
        THEN << <<"## Next Steps">> >>
             \o [k \in 1..Len(next_steps) |-> <<"- ", next_steps[k]>>]
        ELSE <<>>)

\* the NOW.md that _initialize_storage writes
DefaultNowFile ==
    <<  <<"# Current Status">>, <<"Status: ", StatusIdle>>,
        <<"## Next Steps">>, <<"- ", "Awaiting user input">>  >>

\* the directory before any manager was constructed for it: `files` are the
\* files that exist, the other fields are their contents
NoDirectory ==
    [files |-> {}, now |-> <<>>, log |-> <<>>, facts |-> EmptyDict,
     log_metadata |-> <<>>, compaction_history |-> <<>>, tables |-> EmptyDict]

\* variant: NOW.md is reset on every construction
initialize_storage_resets_now(dir) ==
    [dir EXCEPT !.files = @ \cup {"NOW.md", "LOG.md"},
                !.now = DefaultNowFile,
                !.log = IF "LOG.md" \in dir.files THEN @ ELSE <<>>]

\* _initialize_storage: NOW.md and LOG.md are written only if absent
initialize_storage(dir) ==
    [dir EXCEPT !.files = @ \cup {"NOW.md", "LOG.md"},
                !.now = IF "NOW.md" \in dir.files THEN @ ELSE DefaultNowFile,
                !.log = IF "LOG.md" \in dir.files THEN @ ELSE <<>>]

\* _initialize_database: CREATE TABLE IF NOT EXISTS for the three tables
initialize_database(dir) ==
    IF "memory.db" \in dir.files THEN dir
    ELSE [dir EXCEPT !.files = @ \cup {"memory.db"},
                     !.facts = EmptyDict,
                     !.log_metadata = <<>>,
                     !.compaction_history = <<>>]

\* MemoryManager.__init__ on a directory; no LanceDB table until the first
\* insert
construct(dir) == initialize_database(initialize_storage(dir))

NewDirectory == construct(NoDirectory)

NewDisk == [p \in {memory_path(a) : a \in AgentNames} |-> NewDirectory]

FactKeys == {"user_name", "api_key"}
FactValues == {"Felipe", "12345"}
\* save_fact's documented categories (general, preference, personal, config)
FactCategories == {"general", "personal"}
MemoryStatuses == {"Working on tests", "Testing memory system"}
\* next_steps: None, or a list of actions
NextStepLists == {<<>>, <<"Run tests", "Verify functionality">>}
MemoryEntryTypes == {"THOUGHT"}
MemoryContents == {"User prefers dark mode"}
Summaries == {"summary"}

\* with open(self.log_file, 'a') as f: f.write(entry)
write_log_entry(dir, entry_type) ==
    [dir EXCEPT !.log = append_log(@, entry_type)]

\* _store_log_metadata: INSERT INTO log_metadata, commit
store_log_metadata(dir, entry_type) ==
    [dir EXCEPT !.log_metadata = Append(@, [entry_type |-> entry_type,
                                            compacted |-> FALSE])]

\* MemoryManager.append_log: the entry block and its log_metadata row
MemoryManager_append_log(dir, entry_type) ==
    store_log_metadata(write_log_entry(dir, entry_type), entry_type)

\* variant: the next steps of the previous call are kept when none are
\* passed
MemoryManager_update_now_keeps_steps(dir, new_status, next_steps) ==
    LET kept == [k \in 1..Len(dir.now) - 3 |-> dir.now[k + 3]]
    IN  MemoryManager_append_log(
            [dir EXCEPT !.now = IF next_steps # <<>> \/ Len(dir.now) <= 3
                                THEN NowFile(new_status, next_steps)
                                ELSE NowFile(new_status, <<>>) \o kept],
            "SYSTEM")

\* MemoryManager.update_now: write_text replaces the whole file, then a
\* SYSTEM entry is logged
MemoryManager_update_now(dir, new_status, next_steps) ==
    MemoryManager_append_log(
        [dir EXCEPT !.now = NowFile(new_status, next_steps)], "SYSTEM")

StatusInitialized == "Initialized and ready"

\* initialize_agent_memory: False at once when the memory directory exists
\* and force is false; otherwise a MemoryManager is constructed, the
\* component paths are read off it, update_now writes the first status and
\* True is returned. An attribute the manager does not have raises
\* AttributeError, which the except clause turns into False.
initialize_agent_memory(dir, force) ==
    IF dir.files # {} /\ ~force
    THEN [returns |-> FALSE, dir |-> dir]
    ELSE LET manager == construct(dir)
             \* the attributes MemoryManager.__init__ sets on the instance
             attributes ==
                 {"agent_name", "base_path", "memory_path", "now_file",
                  "log_file", "db_file", "lancedb_path", "log_max_size_kb",
                  "log_max_entries", "embedding_dimension", "lance_db",
                  "lance_table"}
             \* the attributes read to build `components`
             components ==
                 <<"now_file", "log_file", "db_file", "chroma_path">>
         IN  IF \A k \in 1..Len(components) : components[k] \in attributes
             THEN [returns |-> TRUE,
                   dir |-> MemoryManager_update_now(
                               manager, StatusInitialized,
                               <<"Awaiting first user input">>)]
             ELSE [returns |-> FALSE, dir |-> manager]

\* the status line of a NOW.md
RECURSIVE StatusLines(_)
StatusLines(lines) ==
    IF lines = <<>> THEN <<>>
    ELSE (IF Head(lines)[1] = "Status: " THEN <<Head(lines)[2]>> ELSE <<>>)
         \o StatusLines(Tail(lines))

\* the bullets of a NOW.md
RECURSIVE NextSteps(_)
NextSteps(lines) ==
    IF lines = <<>> THEN <<>>
    ELSE (IF Head(lines)[1] = "- " THEN <<Head(lines)[2]>> ELSE <<>>)
         \o NextSteps(Tail(lines))

\* variant: INSERT OR IGNORE, an existing row is kept
save_fact_keeps_first(dir, key, value, category) ==
    MemoryManager_append_log(
        [dir EXCEPT !.facts = IF key \in DOMAIN @ THEN @
                              ELSE Put(@, key, [value |-> value,
                                                category |-> category])],
        "SYSTEM")

\* INSERT OR REPLACE INTO user_facts on the UNIQUE key, then a SYSTEM entry
save_fact(dir, key, value, category) ==
    MemoryManager_append_log(
        [dir EXCEPT !.facts = Put(@, key, [value |-> value,
                                           category |-> category])],
        "SYSTEM")

get_fact(dir, key) ==
    IF key \in DOMAIN dir.facts THEN dir.facts[key].value ELSE None

\* `if category:` selects the filtered query, so None and "" both read all
get_all_facts(dir, category) ==
    LET keys == IF Truthy(category)
                THEN {k \in DOMAIN dir.facts : dir.facts[k].category = category}
                ELSE DOMAIN dir.facts
    IN  [k \in keys |-> dir.facts[k].value]

\* variant: self.lance_db is not tested before the insert
store_memory_unchecked(dir, agent_name, text, lance_db, insert_ok) ==
    IF insert_ok
    THEN [returns |-> TRUE,
          dir |-> [dir EXCEPT !.tables =
                      Put(@, table_name(agent_name),
                          Append(Get(@, table_name(agent_name), <<>>), text))]]
    ELSE [returns |-> FALSE, dir |-> dir]

\* store_memory: False at once when self.lance_db is None; otherwise a row
\* in the agent's table, created on first insert, or False when the insert
\* raises
store_memory(dir, agent_name, text, lance_db, insert_ok) ==
    IF lance_db /\ insert_ok
    THEN [returns |-> TRUE,
          dir |-> [dir EXCEPT !.tables =
                      Put(@, table_name(agent_name),
                          Append(Get(@, table_name(agent_name), <<>>), text))]]
    ELSE [returns |-> FALSE, dir |-> dir]

\* recall_memory(query, n_results=3)
DefaultResults == 3

\* recall_memory: [] when self.lance_db is None, when the table does not
\* exist or when the search raises; otherwise the n_results nearest rows,
\* whichever they are
recall_memory(dir, agent_name, lance_db, search_ok) ==
    LET rows == Get(dir.tables, table_name(agent_name), <<>>)
        n == IF Len(rows) < DefaultResults THEN Len(rows) ELSE DefaultResults
    IN  IF lance_db /\ search_ok
        THEN {{rows[k] : k \in ks} :
                 ks \in {x \in SUBSET (1..Len(rows)) : Cardinality(x) = n}}
        ELSE {{}}

\* archive_id = f"archive_{timestamp}": the id compact_log writes to
\* compaction_history; the clock reads as the ordinal of the compaction
archive_id(n) == "archive_" \o ToString(n)

\* the ids of the records in the agent's COLD table: store_memory gives the
\* record it inserts doc_id = f"memory_{datetime.now().timestamp()}"; the
\* clock reads as the ordinal of the record
record_ids(dir, agent_name) ==
    {"memory_" \o ToString(k) :
        k \in 1..Len(Get(dir.tables, table_name(agent_name), <<>>))}

\* UPDATE log_metadata SET compacted = 1, INSERT INTO compaction_history,
\* conn.commit()
commit_compaction(dir, summary, archived) ==
    LET entries_count == Cardinality({k \in DOMAIN dir.log_metadata :
                                         ~dir.log_metadata[k].compacted})
    IN  [dir EXCEPT
            !.log_metadata =
                [k \in DOMAIN @ |-> [@[k] EXCEPT !.compacted = TRUE]],
            !.compaction_history =
                Append(@, [entries_count |-> entries_count,
                           summary |-> summary,
                           archive_id |-> IF archived
                                          THEN archive_id(Len(@) + 1)
                                          ELSE None])]

\* self.log_file.write_text(new_content): header and summary
rewrite_log(dir, summary) == [dir EXCEPT !.log = <<summary>>]

\* variant: compaction marks the rows but records no history row
compact_log_no_history(dir, agent_name, summary, lance_db, insert_ok, db_ok) ==
    LET archived == IF lance_db
                    THEN store_memory(dir, agent_name, dir.log, lance_db, insert_ok)
                    ELSE [returns |-> FALSE, dir |-> dir]
    IN  IF ~db_ok
        THEN [returns |-> FALSE, dir |-> archived.dir]
        ELSE [returns |-> TRUE,
              dir |-> [archived.dir EXCEPT
                  !.log_metadata =
                      [k \in DOMAIN @ |-> [@[k] EXCEPT !.compacted = TRUE]],
                  !.log = <<summary>>]]

\* compact_log: archive LOG.md if self.lance_db (the result of store_memory
\* is not looked at), count and mark the uncompacted rows, record the
\* compaction, rewrite LOG.md as header + summary; a sqlite error lands in
\* the except branch after the archive was stored
compact_log(dir, agent_name, summary, lance_db, insert_ok, db_ok) ==
    LET archived == IF lance_db
                    THEN store_memory(dir, agent_name, dir.log, lance_db, insert_ok)
                    ELSE [returns |-> FALSE, dir |-> dir]
    IN  IF ~db_ok
        THEN [returns |-> FALSE, dir |-> archived.dir]
        ELSE [returns |-> TRUE,
              dir |-> rewrite_log(commit_compaction(archived.dir, summary,
                                                    lance_db),
                                  summary)]

\* the "---" line that ends the header and every entry block
Separator == "---"
LogHeader == "# Activity Log"

\* the text of LOG.md, block by block: the header (with the summary after a
\* compaction) and its separator, then each entry and its separator
LogText(dir) ==
    LET summarised == dir.log # <<>> /\ Head(dir.log) \in Summaries
        entries == IF summarised THEN Tail(dir.log) ELSE dir.log
        blocks == [k \in 1..2 * Len(entries) |->
                      IF k % 2 = 1 THEN entries[(k + 1) \div 2] ELSE Separator]
    IN  (IF summarised THEN <<LogHeader, Head(dir.log), Separator>>
         ELSE <<LogHeader, Separator>>) \o blocks

\* content.split('\n---\n'): text after the last separator is a piece too,
\* also when it is empty
RECURSIVE split(_, _)
split(text, piece) ==
    IF text = <<>> THEN <<piece>>
    ELSE IF Head(text) = Separator THEN <<piece>> \o split(Tail(text), <<>>)
    ELSE split(Tail(text), Append(piece, Head(text)))

\* '\n---\n'.join(pieces)
RECURSIVE join(_)
join(pieces) ==
    IF pieces = <<>> THEN <<>>
    ELSE IF Len(pieces) = 1 THEN pieces[1]
    ELSE pieces[1] \o <<Separator>> \o join(Tail(pieces))

\* MemoryManager.read_log; last_n_entries is a number of entries, and
\* `if last_n_entries:` reads None as it reads 0
read_log(dir, last_n_entries) ==
    LET entries == split(LogText(dir), <<>>)
        n == last_n_entries
        \* entries[-last_n_entries:]
        last == IF n >= Len(entries) THEN entries
                ELSE [k \in 1..n |-> entries[Len(entries) - n + k]]
    IN  IF "LOG.md" \notin dir.files THEN <<>>
        ELSE IF last_n_entries # 0 THEN join(last)
        ELSE LogText(dir)

\* self.log_max_size_kb, self.log_max_entries
log_max_size_kb == 50
log_max_entries == 100

\* variant: the entry limit itself already triggers
check_compaction_needed_at_limit(dir, st_size) ==
    LET count == Cardinality({k \in DOMAIN dir.log_metadata :
                                 ~dir.log_metadata[k].compacted})
    IN  IF st_size > log_max_size_kb * 1024 THEN TRUE
        ELSE count >= log_max_entries

\* _check_compaction_needed: st_size is LOG.md's size in bytes;
\* st_size / 1024 > log_max_size_kb, or more uncompacted rows than
\* log_max_entries
check_compaction_needed(dir, st_size) ==
    LET count == Cardinality({k \in DOMAIN dir.log_metadata :
                                 ~dir.log_metadata[k].compacted})
    IN  IF st_size > log_max_size_kb * 1024 THEN TRUE
        ELSE count > log_max_entries

(***************************************************************************)
(* Skill registry (core/skill_registry.py)                                 *)
(***************************************************************************)
SkillNames == {"file-operations", "web-search"}
SkillAgents == {"core", "finn"}
SkillCategories == {"general", "database"}

\* Python None where a Skill is expected
NoSkill == EmptyDict

\* the parameters a skill's metadata marks required=True
RequiredParameters(name) == IF name = "file-operations" THEN {"operation"} ELSE {}

\* a Skill as scan_directory builds it: initialize() loads Layer 0 with
\* agent_name="core", is_core=True and Layer 1 with the agent's own name,
\* is_core=False; execute_func is the execute() loaded from the skill's
\* own scripts, or None for a documentation-only skill
NewSkills ==
    {[name |-> n, agent |-> a, category |-> c, is_core |-> (a = "core"),
      overrides_core |-> FALSE, required |-> RequiredParameters(n),
      execute_func |-> h] :
        n \in SkillNames, a \in SkillAgents, c \in SkillCategories,
        h \in {None, "execute"}}

\* the callable behind a skill: which layer's script it was loaded from
HookOf(skill) ==
    IF skill.execute_func = None THEN None
    ELSE IF skill.is_core THEN "core execute" ELSE "agent execute"

\* SkillRegistry.__init__
EmptyRegistry ==
    [skills |-> EmptyDict, core_skills |-> EmptyDict,
     skills_by_agent |-> EmptyDict, skills_by_category |-> EmptyDict]

\* if key not in index: index[key] = []; if name not in index[key]: append
IndexName(index, key, name) ==
    LET names == Get(index, key, <<>>)
    IN  Put(index, key,
            IF \E k \in 1..Len(names) : names[k] = name
            THEN names ELSE Append(names, name))

\* variant: a core skill arriving after an agent skill does not replace it
register_skill_keeps_agent_skill(reg, skill) ==
    LET overriding == /\ skill.name \in DOMAIN reg.skills
                      /\ reg.skills[skill.name].is_core
                      /\ ~skill.is_core
        late_core == /\ skill.name \in DOMAIN reg.skills
                     /\ ~reg.skills[skill.name].is_core
                     /\ skill.is_core
        stored == IF overriding THEN [skill EXCEPT !.overrides_core = TRUE]
                  ELSE skill
    IN  [skills |-> IF late_core THEN reg.skills
                    ELSE Put(reg.skills, skill.name, stored),
         core_skills |-> IF skill.is_core
                         THEN Put(reg.core_skills, skill.name, stored)
                         ELSE reg.core_skills,
         skills_by_agent |->
             IndexName(reg.skills_by_agent, skill.agent, skill.name),
         skills_by_category |->
             IndexName(reg.skills_by_category, skill.category, skill.name)]

\* variant: the override is not marked on the agent skill
register_skill_unmarked(reg, skill) ==
    [skills |-> Put(reg.skills, skill.name, skill),
     core_skills |-> IF skill.is_core
                     THEN Put(reg.core_skills, skill.name, skill)
                     ELSE reg.core_skills,
     skills_by_agent |->
         IndexName(reg.skills_by_agent, skill.agent, skill.name),
     skills_by_category |->
         IndexName(reg.skills_by_category, skill.category, skill.name)]

register_skill(reg, skill) ==
    LET overriding == /\ skill.name \in DOMAIN reg.skills
                      /\ reg.skills[skill.name].is_core
                      /\ ~skill.is_core
        stored == IF overriding THEN [skill EXCEPT !.overrides_core = TRUE]
                  ELSE skill
    IN  [skills |-> Put(reg.skills, skill.name, stored),
         core_skills |-> IF skill.is_core
                         THEN Put(reg.core_skills, skill.name, stored)
                         ELSE reg.core_skills,
         skills_by_agent |->
             IndexName(reg.skills_by_agent, skill.agent, skill.name),
         skills_by_category |->
             IndexName(reg.skills_by_category, skill.category, skill.name)]

get_skill(reg, name) == Get(reg.skills, name, NoSkill)

\* SkillRegistry.has_skill
registry_has_skill(reg, name) == name \in DOMAIN reg.skills

\* [self._skills[name] for name in skill_names]
get_skills_by_agent(reg, agent) ==
    LET names == Get(reg.skills_by_agent, agent, <<>>)
    IN  [k \in 1..Len(names) |-> reg.skills[names[k]]]

get_skills_by_category(reg, category) ==
    LET names == Get(reg.skills_by_category, category, <<>>)
    IN  [k \in 1..Len(names) |-> reg.skills[names[k]]]

\* the parameter mappings a caller passes, as the set of names supplied
ParamMappings == {{}, {"operation"}}

\* what the loaded execute() does when it is called
HookOutcomes == {"returns", "raises"}

\* the outcome of a call and the callable it invoked, if any
Outcome(o, h) == [outcome |-> o, invoked |-> h]

\* variant: required parameters are validated before the hook is looked at
Skill_execute_validates_first(skill, params, hook_outcome) ==
    IF \E p \in skill.required : p \notin params
    THEN Outcome("missing_required_parameter", None)
    ELSE IF skill.execute_func = None
    THEN Outcome("no_runtime", None)
    ELSE IF hook_outcome = "raises"
    THEN Outcome("execution_failed", HookOf(skill))
    ELSE Outcome("ok", HookOf(skill))

\* Skill.execute
Skill_execute(skill, params, hook_outcome) ==
    IF skill.execute_func = None
    THEN Outcome("no_runtime", None)
    ELSE IF \E p \in skill.required : p \notin params
    THEN Outcome("missing_required_parameter", None)
    ELSE IF hook_outcome = "raises"
    THEN Outcome("execution_failed", HookOf(skill))
    ELSE Outcome("ok", HookOf(skill))

execute_skill(reg, name, params, hook_outcome) ==
    IF ~registry_has_skill(reg, name)
    THEN Outcome("skill_not_found", None)
    ELSE Skill_execute(get_skill(reg, name), params, hook_outcome)

NoCall == [op |-> "none"]

(***************************************************************************)
(* Directory scan (core/skill_registry.py)                                 *)
(***************************************************************************)
MaxScans == 2

\* skill directories a scanned directory can hold: one whose SKILL.md
\* names the skill, one whose frontmatter has no name
SkillDirs ==
    {[path |-> "file-operations", name |-> "file-operations",
      body |-> "# File operations"],
     [path |-> "drafts", name |-> "", body |-> "# Draft"]}

\* Python files under a scanned directory; name is SKILL_METADATA["name"],
\* None when the metadata has no name
PyFiles ==
    {[path |-> "__init__.py", name |-> "web-search"],
     [path |-> "file-operations.py", name |-> None],
     [path |-> "file-operations/scripts/file_ops.py", name |-> "file-operations"]}

\* Path.stem
stem(path) ==
    CASE path = "__init__.py" -> "__init__"
      [] path = "file-operations.py" -> "file-operations"
      [] path = "file-operations/scripts/file_ops.py" -> "file_ops"
      [] OTHER -> path

\* py_file.name.startswith("__"): of the names __init__.py,
\* file-operations.py and file_ops.py
starts_with_dunder(path) == path \in {"__init__.py"}

\* orderings of the subsets of S: iterdir and glob promise no order
Listings(S) ==
    UNION {{l \in [1..Cardinality(T) -> T] :
               \A i, j \in 1..Cardinality(T) : i # j => l[i] # l[j]} :
           T \in SUBSET S}

\* _load_skill_from_directory: None when the frontmatter has no name;
\* the scripts of these directories sit in scripts/, which
\* skill_dir.glob("*.py") does not reach, so execute_func stays None
load_skill_from_directory(skill_dir, agent_name, is_core) ==
    IF skill_dir.name = "" THEN NoSkill
    ELSE [name |-> skill_dir.name, agent |-> agent_name,
          category |-> "general", is_core |-> is_core,
          overrides_core |-> FALSE,
          required |-> RequiredParameters(skill_dir.name),
          execute_func |-> None, module_path |-> skill_dir.path,
          prompt_instructions |-> skill_dir.body]

\* _load_skill_from_file: name=metadata.get("name", file_path.stem)
load_skill_from_file(py_file, agent_name, is_core) ==
    LET name == IF py_file.name = None THEN stem(py_file.path)
                ELSE py_file.name
    IN  [name |-> name, agent |-> agent_name, category |-> "general",
         is_core |-> is_core, overrides_core |-> FALSE,
         required |-> RequiredParameters(name), execute_func |-> "execute",
         module_path |-> py_file.path, prompt_instructions |-> None]

RECURSIVE scan_skill_dirs(_, _, _, _)
\* for item in directory_path.iterdir(): load and register
scan_skill_dirs(reg, items, agent_name, is_core) ==
    IF items = <<>> THEN reg
    ELSE LET skill == load_skill_from_directory(Head(items), agent_name, is_core)
         IN  scan_skill_dirs(IF skill = NoSkill THEN reg
                             ELSE register_skill(reg, skill),
                             Tail(items), agent_name, is_core)

RECURSIVE scan_py_files(_, _, _, _)
\* for py_file in directory_path.glob(pattern): skip "__" files and files
\* whose stem is a registered skill name, load and register the others
scan_py_files(reg, py_files, agent_name, is_core) ==
    IF py_files = <<>> THEN reg
    ELSE LET py_file == Head(py_files)
         IN  scan_py_files(
                 IF \/ starts_with_dunder(py_file.path)
                    \/ registry_has_skill(reg, stem(py_file.path))
                 THEN reg
                 ELSE register_skill(reg, load_skill_from_file(py_file,
                                                               agent_name, is_core)),
                 Tail(py_files), agent_name, is_core)

\* SkillRegistry.scan_directory;
\* directory_path.glob("**/*.py" if recursive else "*.py") finds the files
\* of subdirectories only when recursive
scan_directory(reg, items, py_files, agent_name, is_core, recursive) ==
    LET matched ==
            SelectSeq(py_files,
                      LAMBDA f : \/ recursive
                                 \/ f.path # "file-operations/scripts/file_ops.py")
    IN  scan_py_files(scan_skill_dirs(reg, items, agent_name, is_core),
                      matched, agent_name, is_core)

(***************************************************************************)
(* Configuration (core/config.py, core/two_stage_client.py)                *)
(***************************************************************************)
\* a str is the sequence of its characters
\* values of OLLAMA_BASE_URL in the environment
BaseUrls ==
    LET UrlScheme == <<"h", "t", "t", "p", ":", "/", "/">>
        UrlHosts == {<<"o", "l", "l", "a", "m", "a">>,
                     <<"l", "o", "c", "a", "l", "h", "o", "s", "t">>,
                     <<"m", "y", "a", "p", "i">>,
                     <<"d", "e", "v", "b", "o", "x">>,
                     <<"1", "0", ".", "0", ".", "0", ".", "1">>}
        UrlPorts == {<<>>, <<":", "1", "1", "4", "3", "4">>,
                     <<":", "1", "1", "4", "3", "1">>}
        UrlSuffixes == {<<>>,
                        <<"/">>,
                        <<"/", "v", "1">>,
                        <<"/", "a", "p", "i">>,
                        <<"/", "v", "1", "/">>}
    IN  {UrlScheme \o h \o p \o s :
            h \in UrlHosts, p \in UrlPorts, s \in UrlSuffixes}

\* str.rstrip(chars): trailing characters that are in chars are removed
RECURSIVE rstrip(_, _)
rstrip(s, chars) ==
    IF s # <<>> /\ s[Len(s)] \in chars
    THEN rstrip(SubSeq(s, 1, Len(s) - 1), chars)
    ELSE s

\* AgentOSConfig.from_env:
\* url.rstrip('/').rstrip('/v1').rstrip('/api').rstrip('/')
sanitize_base_url(url) ==
    rstrip(rstrip(rstrip(rstrip(url, {"/"}), {"/", "v", "1"}),
                  {"/", "a", "p", "i"}),
           {"/"})

\* TwoStageOllamaClient.__init__:
\* base_url.rstrip('/v1').rstrip('/api').rstrip('/')
client_base_url(base_url) ==
    rstrip(rstrip(rstrip(base_url, {"/", "v", "1"}), {"/", "a", "p", "i"}),
           {"/"})

(***************************************************************************)
(* Tracing (core/observability.py)                                         *)
(***************************************************************************)
\* ENABLE_OBSERVABILITY defaults to "true"
ENABLE_TRACING == TRUE

\* _tracer = SimpleTracer(); file is .tmp/traces.json; current_trace is
\* EmptyDict while no trace is open
NewTracer == [traces |-> <<>>, current_trace |-> EmptyDict, file |-> <<>>]

\* SimpleTracer.start_trace
start_trace(t, name, metadata) ==
    IF ~ENABLE_TRACING THEN t
    ELSE [t EXCEPT !.current_trace =
              [name |-> name, metadata |-> metadata, spans |-> <<>>]]

\* SimpleTracer.add_span
add_span(t, span_name, details) ==
    IF ~ENABLE_TRACING \/ t.current_trace = EmptyDict THEN t
    ELSE [t EXCEPT !.current_trace =
              [@ EXCEPT !.spans = Append(@, [name |-> span_name,
                                             details |-> details])]]

\* SimpleTracer.end_trace
end_trace(t, status) ==
    IF ~ENABLE_TRACING \/ t.current_trace = EmptyDict THEN t
    ELSE [t EXCEPT !.traces = Append(@, Merge(t.current_trace,
                                              [status |-> status])),
                   !.current_trace = EmptyDict]

\* SimpleTracer.save_traces
save_traces(t) == [t EXCEPT !.file = t.traces]

\* the intent each run was started with
IntentOf(agent_name) == <<"intent of ", agent_name>>

MaxSpans == 2

(***************************************************************************)
(* Engine (core/engine.py) and graph driver (core/graph.py)                *)
(***************************************************************************)
\* initial_state of run_agent (no agent_instance key) and of
\* run_agent_with_instance
initial_state(with_instance) ==
    LET base == [plan |-> <<>>,
                 current_step_index |-> 0,
                 tool_outputs |-> EmptyDict,
                 final_response |-> None]
    IN  IF with_instance THEN Merge(base, [agent_instance |-> "agent"]) ELSE base

Init ==
    /\ st = EmptyDict
    /\ pc = "idle"
    /\ provider \in Providers
    /\ unsafe_exec_flag \in BOOLEAN
    /\ executed = <<>>
    /\ console = ""
    /\ log = <<>>
    /\ now = StatusIdle
    /\ result = "pending"
    /\ registry = EmptyRegistry
    /\ disk = NewDisk
    /\ lancedb_available = TRUE
    /\ call = NoCall
    /\ calls = 0
    /\ tracer = NewTracer

\* run_agent / run_agent_with_instance up to app.invoke(initial_state)
StartRun ==
    /\ pc = "idle"
    /\ \E with_instance \in BOOLEAN : st' = initial_state(with_instance)
    /\ log' = append_log(log, "USER_FEEDBACK")
    /\ pc' = "classifier"
    /\ UNCHANGED <<config, tracer, library_state, executed, console, now, result>>

\* variant: the classifier's conditional edge is wired to the step router
FollowEdge_no_intent_edge(edge, state) ==
    CASE edge = "route_intent" -> route_step(state)
      [] edge = "route_step" -> route_step(state)
      [] OTHER -> END
\* the edges create_graph adds after each node
FollowEdge(edge, state) ==
    CASE edge = "route_intent" -> route_intent(state)
      [] edge = "route_step" -> route_step(state)
      [] OTHER -> END

\* one tick of the compiled graph: run the node, merge its update, follow
\* the node's outgoing edge; a raising node aborts app.invoke
Tick(node, r, edge) ==
    /\ executed' = Append(executed, node)
    /\ console' = r.prints
    /\ IF r.raises
       THEN /\ st' = st
            /\ pc' = "raised"
       ELSE /\ st' = Merge(st, r.update)
            /\ pc' = FollowEdge(edge, st')
    /\ UNCHANGED <<config, tracer, library_state, log, now, result>>

Classifier ==
    /\ pc = "classifier"
    /\ \E reply \in ClassifierReplies :
          Tick("classifier", classifier_node(st, reply), "route_intent")

Responder ==
    /\ pc = "responder"
    /\ \E reply \in ResponderReplies :
          Tick("responder", responder_node(st, reply), "END")

Planner ==
    /\ pc = "planner"
    /\ \E reply \in PlannerReplies :
          Tick("planner", planner_node(st, provider, reply), "route_step")

Actor ==
    /\ pc = "actor"
    /\ \E skill_outcome \in SkillOutcomes, code \in ActorLLMReplies :
          Tick("actor", actor_node(st, skill_outcome, code), "route_step")

Auditor ==
    /\ pc = "auditor"
    /\ \E reply \in AuditorReplies :
          Tick("auditor", auditor_node(st, reply), "route_step")

\* app.invoke returned: log the response, finalize NOW.md, return the state
EngineComplete ==
    /\ pc = END
    /\ log' = update_now_log(IF Truthy(Get(st, "final_response", None))
                             THEN append_log(log, "SYSTEM")
                             ELSE log)
    /\ now' = StatusCompleted
    /\ result' = "state"
    /\ pc' = "returned"
    /\ UNCHANGED <<st, config, tracer, library_state, executed, console>>

\* variant: the handler finalizes NOW.md but writes no ERROR entry
EngineExcept_no_error_entry ==
    /\ pc = "raised"
    /\ log' = update_now_log(log)
    /\ now' = StatusRecovery
    /\ result' = None
    /\ pc' = "returned"
    /\ UNCHANGED <<st, config, tracer, library_state, executed, console>>

\* variant: the handler logs the error but leaves NOW.md as it was
EngineExcept_no_update_now ==
    /\ pc = "raised"
    /\ log' = append_log(log, "ERROR")
    /\ UNCHANGED now
    /\ result' = None
    /\ pc' = "returned"
    /\ UNCHANGED <<st, config, tracer, library_state, executed, console>>

\* except Exception: log the error, mark recovery needed, return None
EngineExcept ==
    /\ pc = "raised"
    /\ log' = update_now_log(append_log(log, "ERROR"))
    /\ now' = StatusRecovery
    /\ result' = None
    /\ pc' = "returned"
    /\ UNCHANGED <<st, config, tracer, library_state, executed, console>>

Next ==
    \/ StartRun
    \/ Classifier
    \/ Responder
    \/ Planner
    \/ Actor
    \/ Auditor
    \/ EngineComplete
    \/ EngineExcept

Spec == Init /\ [][Next]_vars

\* every call a node makes returns or raises, and app.invoke keeps stepping
\* the graph: a step that can be taken is taken
SpecTerminating == Init /\ [][Next]_vars /\ WF_vars(Next)

(***************************************************************************)
(* The routers called directly on hand-built states, as                    *)
(* tests/test_graph_routing.py does                                        *)
(***************************************************************************)
ProbeIntents == {"TASK", "QUESTION", "CHAT", "COMMAND"}

StepProbeStates ==
    {[plan |-> p, current_step_index |-> i, tool_outputs |-> EmptyDict,
      final_response |-> f] :
        p \in CandidatePlans, i \in 0..(MaxPlan + 1), f \in {None, "Paris."}}

IntentProbeStates ==
    {initial_state(w) : w \in BOOLEAN}
    \cup {Merge(initial_state(w), [intent_type |-> t]) :
            w \in BOOLEAN, t \in ProbeIntents}

InitRouter ==
    /\ \/ pc = "probe_step" /\ st \in StepProbeStates
       \/ pc = "probe_intent" /\ st \in IntentProbeStates
    /\ provider = "ollama"
    /\ unsafe_exec_flag = FALSE
    /\ executed = <<>>
    /\ console = ""
    /\ log = <<>>
    /\ now = StatusIdle
    /\ result = "pending"
    /\ registry = EmptyRegistry
    /\ disk = NewDisk
    /\ lancedb_available = TRUE
    /\ call = NoCall
    /\ calls = 0
    /\ tracer = NewTracer

ProbeRouteStep ==
    /\ pc = "probe_step"
    /\ pc' = route_step(st)
    /\ executed' = <<"route_step">>
    /\ UNCHANGED <<st, config, tracer, library_state, console, log, now, result>>

ProbeRouteIntent ==
    /\ pc = "probe_intent"
    /\ pc' = route_intent(st)
    /\ executed' = <<"route_intent">>
    /\ UNCHANGED <<st, config, tracer, library_state, console, log, now, result>>

NextRouter == ProbeRouteStep \/ ProbeRouteIntent

SpecRouter == InitRouter /\ [][NextRouter]_vars

(***************************************************************************)
(* A SkillRegistry exercised on its own, as tests/test_skill_registry.py   *)
(* does: skills are registered, then looked up and executed by name        *)
(***************************************************************************)
InitRegistry ==
    /\ pc = "registry"
    /\ st = EmptyDict
    /\ provider = "ollama"
    /\ unsafe_exec_flag = FALSE
    /\ executed = <<>>
    /\ console = ""
    /\ log = <<>>
    /\ now = StatusIdle
    /\ result = "pending"
    /\ registry = EmptyRegistry
    /\ disk = NewDisk
    /\ lancedb_available = TRUE
    /\ call = NoCall
    /\ calls = 0
    /\ tracer = NewTracer

RegisterSkill ==
    /\ calls < MaxRegistrations
    /\ \E skill \in NewSkills :
          /\ registry' = register_skill(registry, skill)
          /\ call' = [op |-> "register_skill", skill |-> skill]
    /\ calls' = calls + 1
    /\ UNCHANGED <<disk, lancedb_available, run_state, config, tracer>>

ExecuteSkill ==
    /\ \E name \in SkillNames \cup {"nonexistent_skill"},
          params \in ParamMappings, hook_outcome \in HookOutcomes :
          call' = [op |-> "execute_skill", name |-> name, params |-> params,
                   result |-> execute_skill(registry, name, params, hook_outcome)]
    /\ UNCHANGED <<registry, disk, lancedb_available, calls, run_state, config, tracer>>

NextRegistry == RegisterSkill \/ ExecuteSkill

SpecRegistry == InitRegistry /\ [][NextRegistry]_vars

(***************************************************************************)
(* A SkillRegistry filled by directory scans: Layer 0 with                 *)
(* agent_name="core", is_core=True, Layer 1 with the agent's own name      *)
(***************************************************************************)
ScanDirectory ==
    /\ calls < MaxScans
    /\ \E items \in Listings(SkillDirs), py_files \in Listings(PyFiles),
          agent_name \in SkillAgents, recursive \in BOOLEAN :
          /\ registry' = scan_directory(registry, items, py_files, agent_name,
                                        agent_name = "core", recursive)
          /\ call' = [op |-> "scan_directory", items |-> items,
                      py_files |-> py_files, agent_name |-> agent_name,
                      recursive |-> recursive]
    /\ calls' = calls + 1
    /\ UNCHANGED <<disk, lancedb_available, run_state, config, tracer>>

NextScan == ScanDirectory

SpecScan == InitRegistry /\ [][NextScan]_vars

(***************************************************************************)
(* Loading the configuration from the environment and handing the base URL *)
(* to a two-stage client                                                   *)
(***************************************************************************)
InitConfig ==
    /\ pc = "config"
    /\ st = EmptyDict
    /\ provider = "ollama"
    /\ unsafe_exec_flag = FALSE
    /\ executed = <<>>
    /\ console = ""
    /\ log = <<>>
    /\ now = StatusIdle
    /\ result = "pending"
    /\ registry = EmptyRegistry
    /\ disk = NewDisk
    /\ lancedb_available = TRUE
    /\ \E url \in BaseUrls : call = [op |-> "getenv", OLLAMA_BASE_URL |-> url]
    /\ calls = 0
    /\ tracer = NewTracer

\* AgentOSConfig.from_env
FromEnv ==
    /\ call.op = "getenv"
    /\ call' = [op |-> "from_env", env |-> call.OLLAMA_BASE_URL,
                OLLAMA_BASE_URL |-> sanitize_base_url(call.OLLAMA_BASE_URL)]
    /\ UNCHANGED <<registry, disk, lancedb_available, calls, run_state, config, tracer>>

\* TwoStageOllamaClient(base_url=None)
NewTwoStageClient ==
    /\ call.op = "from_env"
    /\ call' = [op |-> "TwoStageOllamaClient", env |-> call.env,
                base_url |-> client_base_url(call.OLLAMA_BASE_URL)]
    /\ UNCHANGED <<registry, disk, lancedb_available, calls, run_state, config, tracer>>

NextConfig == FromEnv \/ NewTwoStageClient

SpecConfig == InitConfig /\ [][NextConfig]_vars

(***************************************************************************)
(* Two memory managers working side by side, as test_agent_isolation does  *)
(***************************************************************************)
InitMemory ==
    /\ pc = "memory"
    /\ st = EmptyDict
    /\ provider = "ollama"
    /\ unsafe_exec_flag = FALSE
    /\ executed = <<>>
    /\ console = ""
    /\ log = <<>>
    /\ now = StatusIdle
    /\ result = "pending"
    /\ registry = EmptyRegistry
    /\ disk = NewDisk
    /\ lancedb_available \in BOOLEAN
    /\ call = NoCall
    /\ calls = 0
    /\ tracer = NewTracer

\* one write through the manager of agent a: only self.memory_path is used
Write(a, dir, c) ==
    /\ calls < MaxMemoryOps
    /\ disk' = [disk EXCEPT ![memory_path(a)] = dir]
    /\ call' = c
    /\ calls' = calls + 1
    /\ UNCHANGED <<registry, lancedb_available, run_state, config, tracer>>

\* a new MemoryManager on the agent's directory, e.g. after a restart
Construct(a) ==
    /\ disk' = [disk EXCEPT ![memory_path(a)] = construct(@)]
    /\ call' = [op |-> "construct", agent |-> a]
    /\ UNCHANGED <<registry, lancedb_available, calls, run_state, config, tracer>>

UpdateNow(a) ==
    \E s \in MemoryStatuses, n \in NextStepLists :
        Write(a, MemoryManager_update_now(disk[memory_path(a)], s, n),
              [op |-> "update_now", agent |-> a, new_status |-> s,
               next_steps |-> n])

AppendLog(a) ==
    \E t \in MemoryEntryTypes :
        Write(a, MemoryManager_append_log(disk[memory_path(a)], t),
              [op |-> "append_log", agent |-> a])

SaveFact(a) ==
    \E k \in FactKeys, v \in FactValues, c \in FactCategories :
        Write(a, save_fact(disk[memory_path(a)], k, v, c),
              [op |-> "save_fact", agent |-> a, key |-> k, value |-> v,
               category |-> c])

StoreMemory(a) ==
    \E t \in MemoryContents, insert_ok \in BOOLEAN :
        LET r == store_memory(disk[memory_path(a)], a, <<t>>,
                              lancedb_available, insert_ok)
        IN  Write(a, r.dir,
                  [op |-> "store_memory", agent |-> a, returns |-> r.returns])

RecallMemory(a) ==
    \E search_ok \in BOOLEAN :
        \E found \in recall_memory(disk[memory_path(a)], a,
                                   lancedb_available, search_ok) :
            /\ call' = [op |-> "recall_memory", agent |-> a, returns |-> found]
            /\ UNCHANGED <<registry, disk, lancedb_available, calls,
                           run_state, config, tracer>>

CompactLog(a) ==
    \E s \in Summaries, insert_ok \in BOOLEAN, db_ok \in BOOLEAN :
        LET r == compact_log(disk[memory_path(a)], a, s,
                             lancedb_available, insert_ok, db_ok)
        IN  Write(a, r.dir,
                  [op |-> "compact_log", agent |-> a, summary |-> s,
                   returns |-> r.returns])

NextMemory ==
    \E a \in AgentNames :
        \/ UpdateNow(a)
        \/ AppendLog(a)
        \/ SaveFact(a)
        \/ StoreMemory(a)
        \/ CompactLog(a)

SpecMemory == InitMemory /\ [][NextMemory]_vars

(***************************************************************************)
(* One memory manager through its life: writes, cold-memory calls and      *)
(* restarts on the same directory, as tests/test_memory_integration.py     *)
(* does                                                                    *)
(***************************************************************************)
TestAgent == "agent1"

\* read_log reads LOG.md and returns text
ReadLog(a) ==
    \E n \in {0, 1, 2, 3} :
        /\ call' = [op |-> "read_log", agent |-> a, last_n_entries |-> n,
                    returns |-> read_log(disk[memory_path(a)], n)]
        /\ UNCHANGED <<registry, disk, lancedb_available, calls,
                       run_state, config, tracer>>

NextManager ==
    \/ Construct(TestAgent)
    \/ ReadLog(TestAgent)
    \/ UpdateNow(TestAgent)
    \/ AppendLog(TestAgent)
    \/ SaveFact(TestAgent)
    \/ StoreMemory(TestAgent)
    \/ RecallMemory(TestAgent)
    \/ CompactLog(TestAgent)

SpecManager == InitMemory /\ [][NextManager]_vars

(***************************************************************************)
(* init-memory: agents start without a memory directory; the initializer   *)
(* and managers constructed later work on it                               *)
(***************************************************************************)
InitInitializer ==
    /\ pc = "memory"
    /\ st = EmptyDict
    /\ provider = "ollama"
    /\ unsafe_exec_flag = FALSE
    /\ executed = <<>>
    /\ console = ""
    /\ log = <<>>
    /\ now = StatusIdle
    /\ result = "pending"
    /\ registry = EmptyRegistry
    /\ disk = [p \in {memory_path(a) : a \in AgentNames} |-> NoDirectory]
    /\ lancedb_available \in BOOLEAN
    /\ call = NoCall
    /\ calls = 0
    /\ tracer = NewTracer

\* python core/memory_initializer.py --agent a [--force]
InitializeAgentMemory(a) ==
    \E force \in BOOLEAN :
        LET r == initialize_agent_memory(disk[memory_path(a)], force)
        IN  /\ disk' = [disk EXCEPT ![memory_path(a)] = r.dir]
            /\ call' = [op |-> "initialize_agent_memory", agent |-> a,
                        force |-> force, returns |-> r.returns]
            /\ UNCHANGED <<registry, lancedb_available, calls, run_state,
                           config, tracer>>

NextInitializer ==
    \E a \in AgentNames :
        \/ InitializeAgentMemory(a)
        \/ Construct(a)
        \* writes through a manager constructed on the directory
        \/ disk[memory_path(a)].files # {} /\ UpdateNow(a)
        \/ disk[memory_path(a)].files # {} /\ AppendLog(a)
        \/ disk[memory_path(a)].files # {} /\ SaveFact(a)

SpecInitializer == InitInitializer /\ [][NextInitializer]_vars

(***************************************************************************)
(* A manager on a log that is near its compaction limits                   *)
(***************************************************************************)
InitCompaction ==
    /\ pc = "memory"
    /\ st = EmptyDict
    /\ provider = "ollama"
    /\ unsafe_exec_flag = FALSE
    /\ executed = <<>>
    /\ console = ""
    /\ log = <<>>
    /\ now = StatusIdle
    /\ result = "pending"
    /\ registry = EmptyRegistry
    \* n THOUGHT entries were appended through a manager before: n entry
    \* blocks in LOG.md and their n rows
    /\ \E n \in {0, 98, 99, 100} :
          disk = [NewDisk EXCEPT ![memory_path(TestAgent)] =
                     [NewDirectory EXCEPT
                         !.log = [k \in 1..n |-> "THOUGHT"],
                         !.log_metadata =
                             [k \in 1..n |-> [entry_type |-> "THOUGHT",
                                              compacted |-> FALSE]]]]
    /\ lancedb_available \in BOOLEAN
    /\ call = NoCall
    /\ calls = 0
    /\ tracer = NewTracer

\* append_log up to its return: the entry, its row, then the eligibility
\* check on the file as it is now; st_size is the size in bytes LOG.md has
\* after the append, the entry texts being of any length
AppendLogChecked(a) ==
    \E t \in MemoryEntryTypes, st_size \in {1024, 51199, 51200, 51201} :
        LET dir == MemoryManager_append_log(disk[memory_path(a)], t)
        IN  Write(a, dir,
                  [op |-> "append_log", agent |-> a, st_size |-> st_size,
                   compaction_needed |-> check_compaction_needed(dir, st_size)])

NextCompaction == AppendLogChecked(TestAgent) \/ CompactLog(TestAgent)

SpecCompaction == InitCompaction /\ [][NextCompaction]_vars

(***************************************************************************)
(* A manager's writes one file or database write at a time, with the       *)
(* process cut between any two of them and restarted on the same directory *)
(***************************************************************************)
\* one write of the running call; pc is the place the call has reached
WriteStep(a, dir, c, place) ==
    /\ disk' = [disk EXCEPT ![memory_path(a)] = dir]
    /\ call' = c
    /\ pc' = place
    /\ UNCHANGED <<registry, lancedb_available, config, tracer, st, executed,
                   console, log, now, result>>

\* append_log: the entry is appended to LOG.md
AppendLogWrite(a) ==
    /\ pc = "memory"
    /\ calls < MaxMemoryOps
    /\ calls' = calls + 1
    /\ \E t \in MemoryEntryTypes :
          WriteStep(a, write_log_entry(disk[memory_path(a)], t),
                    [op |-> "append_log", agent |-> a, entry_type |-> t],
                    "append_log: entry written")

\* append_log: the row is inserted, or the insert raises and the except
\* clause returns False
AppendLogStoreMetadata(a) ==
    /\ pc = "append_log: entry written"
    /\ UNCHANGED calls
    /\ \E db_ok \in BOOLEAN :
          WriteStep(a, IF db_ok
                       THEN store_log_metadata(disk[memory_path(a)],
                                               call.entry_type)
                       ELSE disk[memory_path(a)],
                    call, "memory")

\* update_now: NOW.md is overwritten
UpdateNowWrite(a) ==
    /\ pc = "memory"
    /\ calls < MaxMemoryOps
    /\ calls' = calls + 1
    /\ \E s \in MemoryStatuses, n \in NextStepLists :
          WriteStep(a, [disk[memory_path(a)] EXCEPT !.now = NowFile(s, n)],
                    [op |-> "update_now", agent |-> a, new_status |-> s,
                     next_steps |-> n],
                    "update_now: NOW.md written")

\* update_now: the SYSTEM entry of its append_log call is appended
UpdateNowLog(a) ==
    /\ pc = "update_now: NOW.md written"
    /\ UNCHANGED calls
    /\ WriteStep(a, write_log_entry(disk[memory_path(a)], "SYSTEM"),
                 [op |-> "append_log", agent |-> a, entry_type |-> "SYSTEM"],
                 "append_log: entry written")

\* compact_log: the log is archived if self.lance_db
CompactLogArchive(a) ==
    /\ pc = "memory"
    /\ calls < MaxMemoryOps
    /\ calls' = calls + 1
    /\ \E s \in Summaries, insert_ok \in BOOLEAN :
          WriteStep(a, IF lancedb_available
                       THEN store_memory(disk[memory_path(a)], a,
                                         disk[memory_path(a)].log,
                                         lancedb_available, insert_ok).dir
                       ELSE disk[memory_path(a)],
                    [op |-> "compact_log", agent |-> a, summary |-> s],
                    "compact_log: archived")

\* compact_log: rows marked and history row inserted in one commit, or
\* sqlite raises and the except clause returns False
CompactLogCommit(a) ==
    /\ pc = "compact_log: archived"
    /\ UNCHANGED calls
    /\ \E db_ok \in BOOLEAN :
          IF db_ok
          THEN WriteStep(a, commit_compaction(disk[memory_path(a)],
                                              call.summary, lancedb_available),
                         call, "compact_log: committed")
          ELSE WriteStep(a, disk[memory_path(a)], call, "memory")

\* compact_log: LOG.md is rewritten
CompactLogRewrite(a) ==
    /\ pc = "compact_log: committed"
    /\ UNCHANGED calls
    /\ WriteStep(a, rewrite_log(disk[memory_path(a)], call.summary),
                 call, "memory")

\* the process is stopped inside a call: nothing more is written
Cut ==
    /\ pc \notin {"memory", "cut"}
    /\ pc' = "cut"
    /\ console' = pc
    /\ UNCHANGED <<registry, disk, lancedb_available, call, calls, config, tracer,
                   st, executed, log, now, result>>

\* a new process constructs a manager on the directory; console keeps the
\* place of the last cut
RestartAfterCut(a) ==
    /\ pc = "cut"
    /\ UNCHANGED console
    /\ disk' = [disk EXCEPT ![memory_path(a)] = construct(@)]
    /\ call' = [op |-> "construct", agent |-> a]
    /\ pc' = "memory"
    /\ UNCHANGED <<registry, lancedb_available, calls, config, tracer,
                   st, executed, log, now, result>>

NextCut ==
    \/ AppendLogWrite(TestAgent)
    \/ AppendLogStoreMetadata(TestAgent)
    \/ UpdateNowWrite(TestAgent)
    \/ UpdateNowLog(TestAgent)
    \/ CompactLogArchive(TestAgent)
    \/ CompactLogCommit(TestAgent)
    \/ CompactLogRewrite(TestAgent)
    \/ Cut
    \/ RestartAfterCut(TestAgent)

SpecCut == InitMemory /\ [][NextCut]_vars

(***************************************************************************)
(* Runs on distinct agents in one process, each on its own thread: their   *)
(* calls on the global tracer interleave                                   *)
(***************************************************************************)
InitTracing ==
    /\ pc = [a \in AgentNames |-> [at |-> "idle", spans |-> 0]]
    /\ st = EmptyDict
    /\ provider = "ollama"
    /\ unsafe_exec_flag = FALSE
    /\ executed = <<>>
    /\ console = ""
    /\ log = <<>>
    /\ now = StatusIdle
    /\ result = "pending"
    /\ registry = EmptyRegistry
    /\ disk = NewDisk
    /\ lancedb_available = TRUE
    /\ call = NoCall
    /\ calls = 0
    /\ tracer = NewTracer

\* one call of run a on get_tracer()
TracerCall(a, t, c, place) ==
    /\ tracer' = t
    /\ call' = c
    /\ pc' = [pc EXCEPT ![a] = place]
    /\ UNCHANGED <<registry, disk, lancedb_available, calls, config,
                   st, executed, console, log, now, result>>

\* run_agent_with_instance: tracer.start_trace(...)
RunStartTrace(a) ==
    /\ pc[a].at = "idle"
    /\ TracerCall(a, start_trace(tracer, "Agent Execution (Instance)",
                                 [intent |-> IntentOf(a), agent |-> a]),
                  [op |-> "start_trace", agent |-> a],
                  [at |-> "running", spans |-> 0])

\* a node of the run: tracer.add_span(...)
RunAddSpan(a) ==
    /\ pc[a].at = "running"
    /\ pc[a].spans < MaxSpans
    /\ \E node \in {"Classifier", "Planner", "Responder"} :
          TracerCall(a, add_span(tracer, node, [input |-> IntentOf(a)]),
                     [op |-> "add_span", agent |-> a],
                     [at |-> "running", spans |-> pc[a].spans + 1])

\* the end of the run: tracer.end_trace(status); tracer.save_traces()
RunEndTrace(a) ==
    /\ pc[a].at = "running"
    /\ \E status \in {"success", "error"} :
          TracerCall(a, save_traces(end_trace(tracer, status)),
                     [op |-> "end_trace", agent |-> a],
                     [at |-> "done", spans |-> pc[a].spans])

NextTracing ==
    \E a \in AgentNames : RunStartTrace(a) \/ RunAddSpan(a) \/ RunEndTrace(a)

SpecTracing == InitTracing /\ [][NextTracing]_vars


(***************************************************************************)
(* Properties                                                              *)
(***************************************************************************)
Idx(state) == Get(state, "current_step_index", 0)
PlanOf(state) == Get(state, "plan", <<>>)
Intent(state) == Get(state, "intent_type", "TASK")
Final(state) == Get(state, "final_response", None)
Outputs(state) == Get(state, "tool_outputs", EmptyDict)
Ran(node) == \E k \in 1..Len(executed) : executed[k] = node
Entries(l) == {l[k] : k \in 1..Len(l)}

\* C1: the step router's answer is fixed by (current_step_index, plan):
\* terminal when the index is at or past the end of the plan, else the Actor
\* node for role "Actor", the Auditor node for role "Auditor", and terminal
\* for any other role.
C1_StepRouter ==
    executed = <<"route_step">> =>
        LET i == st.current_step_index
            p == st.plan
        IN  /\ (i >= Len(p) => pc = END)
            /\ (i < Len(p) /\ p[i + 1].role = "Actor" => pc = "actor")
            /\ (i < Len(p) /\ p[i + 1].role = "Auditor" => pc = "auditor")
            /\ (i < Len(p) /\ p[i + 1].role \notin {"Actor", "Auditor"} => pc = END)

C1_Witness ==
    /\ executed = <<"route_step">>
    /\ st.current_step_index = 1
    /\ Len(st.plan) = 2
    /\ st.plan[1].role = "Actor"
    /\ st.plan[2].role = "Reviewer"
    /\ pc = END

\* C2: current_step_index never decreases; a tick of the Actor or of the
\* Auditor raises it by exactly one; Classifier and Responder leave it alone;
\* the Planner leaves it at, or sets it to, 0.
C2_CursorSteps ==
    [][/\ Idx(st') >= Idx(st)
       /\ (pc \in {"actor", "auditor"} => Idx(st') = Idx(st) + 1)
       /\ (pc \in {"classifier", "responder"} => Idx(st') = Idx(st))
       /\ (pc = "planner" => Idx(st') = 0)]_vars

C2_Witness ==
    /\ Ran("actor")
    /\ Ran("auditor")
    /\ Idx(st) = 3

\* C3: a run that returns its final state (no node raised) ends with
\* current_step_index = len(plan) when the intent was TASK, and with a
\* non-null final_response when the intent was QUESTION or CHAT.
C3_NormalEnd ==
    (pc = "returned" /\ result = "state") =>
        /\ (Intent(st) = "TASK" => Idx(st) = Len(PlanOf(st)))
        /\ (Intent(st) \in {"QUESTION", "CHAT"} => Final(st) # None)

C3_Witness ==
    /\ pc = "returned"
    /\ result = "state"
    /\ Intent(st) = "TASK"
    /\ Len(PlanOf(st)) = 2
    /\ Idx(st) = 2

\* C4: after the Classifier the run goes to the Planner exactly when
\* intent_type (TASK when absent) is TASK and to the Responder otherwise;
\* the Responder is followed by termination, after which no node runs.
C4_IntentRouting ==
    [][/\ (pc = "classifier" =>
              /\ pc' \in {"planner", "responder"}
              /\ (pc' = "planner" <=> Get(st', "intent_type", "TASK") = "TASK"))
       /\ (pc = "responder" => pc' = END)
       /\ (pc = END => executed' = executed /\ pc' = "returned")]_vars

C4_Witness ==
    /\ executed = <<"classifier", "responder">>
    /\ Intent(st) = "COMMAND"
    /\ pc = "returned"

\* C5: when the Classifier's LLM call fails or its answer cannot be parsed,
\* the Classifier does not raise, writes intent_type = TASK, and the run
\* continues to the Planner.
C5_ClassifierFailOpen ==
    [][pc = "classifier" =>
          /\ pc' # "raised"
          /\ (console' = "classifier: error, defaulting to TASK" =>
                 /\ "intent_type" \in DOMAIN st'
                 /\ st'.intent_type = "TASK"
                 /\ pc' = "planner")]_vars

C5_Witness ==
    /\ executed = <<"classifier">>
    /\ console = "classifier: error, defaulting to TASK"
    /\ pc = "planner"

\* C6: in a run classified QUESTION or CHAT the plan stays empty, the cursor
\* stays 0, neither Planner, Actor nor Auditor executes, and once the
\* Responder has run final_response is a non-null string: the model's answer,
\* or the apology when the LLM call failed.
C6_DirectAnswer ==
    Intent(st) \in {"QUESTION", "CHAT"} =>
        /\ PlanOf(st) = <<>>
        /\ Idx(st) = 0
        /\ ~Ran("planner") /\ ~Ran("actor") /\ ~Ran("auditor")
        /\ (pc = "responder" => executed = <<"classifier">>)
        /\ (pc \in {END, "returned"} =>
               /\ executed = <<"classifier", "responder">>
               /\ Final(st) \in Answers \cup {Apology}
               /\ Final(st) # None
               /\ (console = "responder: error" <=> Final(st) = Apology)
               /\ result # None)
        /\ pc # "raised"

C6_Witness ==
    /\ Intent(st) = "CHAT"
    /\ pc = "returned"
    /\ Final(st) = Apology

\* C7: when the two-stage generation fails (LLM error or plan validation
\* error) the Planner does not raise and writes an empty plan, and a run
\* whose plan is empty after the Planner terminates without any Actor or
\* Auditor execution.
C7_PlannerFailure ==
    [][/\ (pc = "planner" /\ provider = "ollama" =>
              /\ pc' # "raised"
              /\ (console' = "planner: error" => PlanOf(st') = <<>>))
       /\ (pc = "planner" /\ pc' # "raised" /\ PlanOf(st') = <<>> => pc' = END)
       /\ (pc = END => executed' = executed /\ pc' = "returned")]_vars

C7_Witness ==
    /\ provider = "ollama"
    /\ console = "planner: error"
    /\ executed = <<"classifier", "planner">>
    /\ pc = "returned"
    /\ result = "state"

\* C8: every Actor tick on step i records an output string under
\* tool_outputs["step_i"] and moves the cursor from i to i+1 in the same
\* update, whether a skill ran, generated code ran, or the code raised.
C8_ActorRecords ==
    [][pc = "actor" =>
          /\ PlanOf(st)[Idx(st) + 1].role = "Actor"
          /\ StepKey(Idx(st)) \in DOMAIN Outputs(st')
          /\ Outputs(st')[StepKey(Idx(st))] \in
                 {"Skill executed: ok", "Success", "Error: boom"}
          /\ Idx(st') = Idx(st) + 1]_vars

C8_Witness ==
    /\ console = "actor: execution failed"
    /\ Idx(st) = 2
    /\ StepKey(1) \in DOMAIN Outputs(st)
    /\ Outputs(st)[StepKey(1)] = "Error: boom"

\* C9: an Auditor tick on step i moves the cursor to i+1 whatever the
\* verification does (LLM failure, invalid JSON, unknown strategy, failed
\* audit) and changes nothing else in the execution state.
C9_AuditorFrame ==
    [][pc = "auditor" =>
          /\ PlanOf(st)[Idx(st) + 1].role = "Auditor"
          /\ pc' # "raised"
          /\ Idx(st') = Idx(st) + 1
          /\ DOMAIN st' = DOMAIN st
          /\ \A k \in DOMAIN st : k # "current_step_index" => st'[k] = st[k]]_vars

C9_Witness ==
    /\ console = "auditor: verification failed"
    /\ Idx(st) = 1
    /\ PlanOf(st)[1].role = "Auditor"

\* C10: when a node raises, no further node executes, an ERROR entry is
\* appended to the agent's LOG.md, and the run ends with final_response
\* unset (the run returns no state).
C10_NodeRaises ==
    [][/\ (pc' = "raised" => st' = st /\ Final(st') = None)
       /\ (pc = "raised" =>
              /\ pc' = "returned"
              /\ executed' = executed
              /\ Len(log') > Len(log)
              /\ "ERROR" \in {log'[k] : k \in (Len(log) + 1)..Len(log')}
              /\ result' = None
              /\ Final(st') = None)
       /\ (pc = "returned" => pc' = "returned")]_vars

C10_Witness ==
    /\ console = "planner: raised"
    /\ pc = "returned"
    /\ result = None
    /\ "ERROR" \in Entries(log)

\* C11: on both exits of a run update_now is called after the last node
\* and before the run returns: NOW.md is untouched while nodes execute, the
\* normal exit writes the completed status, the exceptional exit (a node
\* raised) writes the recovery-needed status, and each leaves update_now's
\* SYSTEM entry last in LOG.md.
C11_FinalizeMemory ==
    [][/\ (pc \notin {END, "raised"} => now' = now)
       /\ (pc = END =>
              /\ now' = StatusCompleted
              /\ log'[Len(log')] = "SYSTEM"
              /\ executed' = executed
              /\ result' = "state"
              /\ pc' = "returned")
       /\ (pc = "raised" =>
              /\ now' = StatusRecovery
              /\ log'[Len(log')] = "SYSTEM"
              /\ executed' = executed
              /\ result' = None
              /\ pc' = "returned")
       /\ (pc' = "returned" => pc \in {END, "raised", "returned"})]_vars

C11_Witness ==
    /\ pc = "returned"
    /\ result = None
    /\ now = StatusRecovery
    /\ executed = <<"classifier", "planner">>

C13_CodeExecutionBehindFlag ==
    [][/\ pc = "actor"
       /\ console' \in {"actor: code executed", "actor: execution failed"}
                       \cup {SkillFailedPrint(o) : o \in SkillOutcomes \ {"ok"}}
       => unsafe_exec_flag]_vars

C15_AgentSkillOverridesCore ==
    [][/\ (/\ calls' = calls + 1
           /\ ~call'.skill.is_core
           /\ registry_has_skill(registry, call'.skill.name)
           /\ get_skill(registry, call'.skill.name).is_core
           => LET name == call'.skill.name
                  got == get_skill(registry', name)
              IN  /\ got = [call'.skill EXCEPT !.overrides_core = TRUE]
                  /\ name \in DOMAIN registry'.core_skills
                  /\ registry'.core_skills[name] = get_skill(registry, name)
                  /\ registry'.core_skills[name].is_core
                  /\ \A params \in ParamMappings, h \in HookOutcomes :
                         execute_skill(registry', name, params, h)
                             = Skill_execute(got, params, h))
       /\ (/\ call'.op = "execute_skill"
           /\ registry_has_skill(registry, call'.name)
           /\ get_skill(registry, call'.name).overrides_core
           => /\ call'.result.invoked \in {None, "agent execute"}
              /\ (/\ get_skill(registry, call'.name).execute_func # None
                  /\ get_skill(registry, call'.name).required \subseteq call'.params
                  => call'.result.invoked = "agent execute"))]_vars

C15_Witness ==
    /\ call.op = "execute_skill"
    /\ call.name = "file-operations"
    /\ call.result.invoked = "agent execute"
    /\ get_skill(registry, "file-operations").overrides_core
    /\ "file-operations" \in DOMAIN registry.core_skills
    /\ registry.core_skills["file-operations"].execute_func # None

\* C16: registering a core skill under a name held by a non-core skill does
\* not replace the entry: get(name) still returns the non-core skill.
C16_LateCoreDoesNotReplace ==
    [][/\ calls' = calls + 1
       /\ call'.skill.is_core
       /\ registry_has_skill(registry, call'.skill.name)
       /\ ~get_skill(registry, call'.skill.name).is_core
       => get_skill(registry', call'.skill.name)
              = get_skill(registry, call'.skill.name)]_vars

\* C17: after any sequence of register_skill calls the indices agree: for
\* every agent a, by_agent(a) lists exactly the skills of the primary index
\* whose agent is a, each once, and likewise by_category(c) for every
\* category c.
C17_IndicesAgree ==
    /\ \A a \in SkillAgents :
          LET listed == get_skills_by_agent(registry, a)
          IN  /\ {listed[k] : k \in 1..Len(listed)}
                     = {registry.skills[n] : n \in
                           {m \in DOMAIN registry.skills : registry.skills[m].agent = a}}
              /\ \A i, j \in 1..Len(listed) : listed[i] = listed[j] => i = j
    /\ \A c \in SkillCategories :
          LET listed == get_skills_by_category(registry, c)
          IN  /\ {listed[k] : k \in 1..Len(listed)}
                     = {registry.skills[n] : n \in
                           {m \in DOMAIN registry.skills : registry.skills[m].category = c}}
              /\ \A i, j \in 1..Len(listed) : listed[i] = listed[j] => i = j

\* C18 (as stated): execute on a registered skill checks required
\* parameters first: when one is absent it fails with
\* missing-required-parameter and calls nothing, also for a skill without an
\* execute function; only with all of them present is the function called
\* or no-runtime reported.
C18_Original ==
    [][/\ call'.op = "execute_skill"
       /\ registry_has_skill(registry, call'.name)
       => LET skill == get_skill(registry, call'.name)
          IN  IF skill.required \subseteq call'.params
              THEN call'.result.outcome \in {"ok", "execution_failed", "no_runtime"}
              ELSE /\ call'.result.outcome = "missing_required_parameter"
                   /\ call'.result.invoked = None]_vars

\* C18 (amended): execute on a registered skill first reports no-runtime
\* when the skill has no execute function, whatever the parameters; for a
\* skill that has one it then checks required parameters: when one is absent
\* it fails with missing-required-parameter and calls nothing, and only with
\* all of them present is the function called.
C18_RuntimeThenRequired ==
    [][/\ call'.op = "execute_skill"
       /\ registry_has_skill(registry, call'.name)
       => LET skill == get_skill(registry, call'.name)
          IN  IF skill.execute_func = None
              THEN /\ call'.result.outcome = "no_runtime"
                   /\ call'.result.invoked = None
              ELSE IF skill.required \subseteq call'.params
              THEN /\ call'.result.outcome \in {"ok", "execution_failed"}
                   /\ call'.result.invoked = HookOf(skill)
              ELSE /\ call'.result.outcome = "missing_required_parameter"
                   /\ call'.result.invoked = None]_vars

C18_Witness ==
    /\ call.op = "execute_skill"
    /\ call.name = "file-operations"
    /\ call.params = {}
    /\ registry_has_skill(registry, "file-operations")
    /\ get_skill(registry, "file-operations").execute_func = None
    /\ call.result.outcome = "no_runtime"

\* C19: over any sequence of save_fact calls on one agent, a save of
\* (key, value, category) makes get_fact(key) return value and leaves every
\* other key's row alone, nothing else changes the facts, get_fact of a key
\* never saved is None, get_all_facts() has exactly one entry per saved key
\* with the value get_fact returns, and get_all_facts(category) has exactly
\* the keys whose last save used that category.
C19_FactRoundTrip ==
    [][\A a \in AgentNames :
          LET old == disk[memory_path(a)]
              new == disk'[memory_path(a)]
              saving == /\ calls' = calls + 1
                        /\ call'.op = "save_fact"
                        /\ call'.agent = a
          IN  /\ (saving =>
                    /\ get_fact(new, call'.key) = call'.value
                    /\ new.facts[call'.key].category = call'.category
                    /\ \A k \in FactKeys \ {call'.key} :
                           /\ get_fact(new, k) = get_fact(old, k)
                           /\ \A c \in FactCategories :
                                  (k \in DOMAIN get_all_facts(new, c))
                                      <=> (k \in DOMAIN get_all_facts(old, c)))
              /\ (~saving => new.facts = old.facts)
              /\ get_fact(new, "nonexistent") = None
              /\ \A k \in FactKeys :
                     IF k \in DOMAIN new.facts
                     THEN /\ k \in DOMAIN get_all_facts(new, None)
                          /\ get_all_facts(new, None)[k] = get_fact(new, k)
                     ELSE /\ get_fact(new, k) = None
                          /\ k \notin DOMAIN get_all_facts(new, None)
              /\ DOMAIN get_all_facts(new, None) \subseteq FactKeys
              /\ \A c \in FactCategories :
                     /\ DOMAIN get_all_facts(new, c)
                            = {k \in DOMAIN new.facts : new.facts[k].category = c}
                     /\ \A k \in DOMAIN get_all_facts(new, c) :
                            get_all_facts(new, c)[k] = get_fact(new, k)]_vars

C19_Witness ==
    /\ calls = 3
    /\ call.op = "save_fact"
    /\ call.agent = "agent1"
    /\ call.key = "user_name"
    /\ Len(disk[memory_path("agent1")].log) = 3
    /\ get_fact(disk[memory_path("agent1")], "user_name") = "12345"
    /\ DOMAIN get_all_facts(disk[memory_path("agent1")], None) = {"user_name"}
    /\ DOMAIN get_all_facts(disk[memory_path("agent1")], "general") = {}
    /\ DOMAIN get_all_facts(disk[memory_path("agent1")], "personal") = {"user_name"}

\* C20: whatever one memory manager does (update_now, append_log, save_fact,
\* store_memory, compact_log), the other agent's NOW.md, LOG.md, fact store,
\* log metadata and vector-store table stay as they were.
C20_AgentIsolation ==
    [][\A a \in AgentNames :
          calls' = calls + 1 /\ call'.agent = a
          => \A b \in AgentNames \ {a} :
                 LET old == disk[memory_path(b)]
                     new == disk'[memory_path(b)]
                 IN  /\ new.now = old.now
                     /\ new.log = old.log
                     /\ new.facts = old.facts
                     /\ new.log_metadata = old.log_metadata
                     /\ Get(new.tables, table_name(b), <<>>)
                            = Get(old.tables, table_name(b), <<>>)
                     /\ table_name(a) \notin DOMAIN new.tables]_vars

C20_Witness ==
    /\ calls = 3
    /\ call.op = "compact_log"
    /\ call.agent = "agent2"
    /\ get_fact(disk[memory_path("agent1")], "user_name") = "Felipe"
    /\ get_fact(disk[memory_path("agent2")], "user_name") = None
    /\ disk[memory_path("agent1")].log = <<"SYSTEM">>
    /\ disk[memory_path("agent2")].log = <<"summary">>
    /\ table_name("agent2") \in DOMAIN disk[memory_path("agent2")].tables
    /\ disk[memory_path("agent1")].tables = EmptyDict

\* the rows of an agent's COLD table in its own directory
ColdRows(a, d) == Get(d[memory_path(a)].tables, table_name(a), <<>>)

\* number of log_metadata rows with compacted = 0
Uncompacted(dir) ==
    Cardinality({k \in DOMAIN dir.log_metadata : ~dir.log_metadata[k].compacted})

\* C21: after every compact_log(summary) that reports success, the LOG.md
\* content from before the call is stored in the COLD tier and the summary
\* is in the new LOG.md, also when the COLD backend is unavailable or the
\* store call fails.
C21_CompactionPreservesLog ==
    [][\A a \in AgentNames :
          /\ calls' = calls + 1
          /\ call'.op = "compact_log"
          /\ call'.agent = a
          /\ call'.returns
          => /\ \E k \in DOMAIN ColdRows(a, disk') :
                    ColdRows(a, disk')[k] = disk[memory_path(a)].log
             /\ \E k \in DOMAIN disk'[memory_path(a)].log :
                    disk'[memory_path(a)].log[k] = call'.summary]_vars

\* C22: a successful compact_log(summary) leaves no uncompacted
\* log_metadata row, adds exactly one compaction_history row whose
\* entries_count is the number of rows that were uncompacted just before the
\* call, and rewrites LOG.md to the header plus the summary block only.
C22_CompactionBookkeeping ==
    [][\A a \in AgentNames :
          /\ calls' = calls + 1
          /\ call'.op = "compact_log"
          /\ call'.agent = a
          /\ call'.returns
          => LET old == disk[memory_path(a)]
                 new == disk'[memory_path(a)]
                 n == Len(old.compaction_history)
             IN  /\ Uncompacted(new) = 0
                 /\ Len(new.log_metadata) = Len(old.log_metadata)
                 /\ Len(new.compaction_history) = n + 1
                 /\ SubSeq(new.compaction_history, 1, n) = old.compaction_history
                 /\ new.compaction_history[n + 1].entries_count = Uncompacted(old)
                 /\ new.compaction_history[n + 1].summary = call'.summary
                 /\ new.log = <<call'.summary>>]_vars

C22_Witness ==
    /\ calls = 3
    /\ call.op = "compact_log"
    /\ call.returns
    /\ Len(disk[memory_path(TestAgent)].log_metadata) = 2
    /\ Uncompacted(disk[memory_path(TestAgent)]) = 0
    /\ Len(disk[memory_path(TestAgent)].compaction_history) = 1
    /\ disk[memory_path(TestAgent)].compaction_history[1].entries_count = 2
    /\ disk[memory_path(TestAgent)].log = <<"summary">>

\* C23: with the COLD backend absent at construction, every store_memory
\* returns False and every recall_memory returns an empty list, and neither
\* changes NOW.md, LOG.md, the facts or the log metadata.
C23_ColdAbsentNoOps ==
    [][~lancedb_available =>
          /\ (calls' = calls + 1 /\ call'.op = "store_memory"
                 => /\ call'.returns = FALSE
                    /\ disk' = disk)
          /\ (call'.op = "recall_memory"
                 => /\ call'.returns = {}
                    /\ disk' = disk)]_vars

C23_Witness ==
    /\ ~lancedb_available
    /\ calls = 3
    /\ call.op = "store_memory"
    /\ call.returns = FALSE
    /\ disk[memory_path(TestAgent)].log = <<"THOUGHT", "SYSTEM">>
    /\ disk[memory_path(TestAgent)].tables = EmptyDict

\* C24: after any sequence of update_now calls NOW.md holds exactly the
\* status and the next steps of the last call: the file an update_now(s,
\* steps) leaves does not depend on what was there before, a repeat leaves
\* the same status and steps, nothing of an earlier call remains (its next
\* steps included, when the last call passed none), and no other call
\* touches the file.
C24_UpdateNowLastWins ==
    [][\A a \in AgentNames :
          LET old == disk[memory_path(a)]
              new == disk'[memory_path(a)]
              updating == /\ calls' = calls + 1
                          /\ call'.op = "update_now"
                          /\ call'.agent = a
          IN  /\ (updating =>
                    /\ StatusLines(new.now) = <<call'.new_status>>
                    /\ NextSteps(new.now) = call'.next_steps
                    /\ MemoryManager_update_now(new, call'.new_status,
                                                call'.next_steps).now = new.now)
              /\ (~updating => new.now = old.now)]_vars

C24_Witness ==
    /\ calls = 3
    /\ call.op = "update_now"
    /\ call.next_steps = <<>>
    /\ disk[memory_path(TestAgent)].log = <<"SYSTEM", "SYSTEM", "SYSTEM">>
    /\ disk[memory_path(TestAgent)].facts = EmptyDict
    /\ StatusLines(disk[memory_path(TestAgent)].now) = <<"Testing memory system">>
    /\ NextSteps(disk[memory_path(TestAgent)].now) = <<>>

\* C25: constructing a new MemoryManager on an agent's existing memory
\* directory changes nothing persistent: NOW.md (status and next steps),
\* the LOG.md entries and the saved facts written through the earlier
\* manager are what the new one reads.
C25_RestartKeepsMemory ==
    [][call'.op = "construct" => disk' = disk]_vars

C25_Witness ==
    /\ call.op = "construct"
    /\ calls = 3
    /\ NextSteps(disk[memory_path(TestAgent)].now)
           = <<"Run tests", "Verify functionality">>
    /\ get_fact(disk[memory_path(TestAgent)], "user_name") = "Felipe"
    /\ disk[memory_path(TestAgent)].log = <<"SYSTEM", "SYSTEM", "THOUGHT">>

\* C26: in every state after the Classifier has run, intent_type is one of
\* TASK, QUESTION, CHAT, whatever the classifier LLM returned.
C26_IntentTypeDomain ==
    Ran("classifier") =>
        /\ "intent_type" \in DOMAIN st
        /\ st["intent_type"] \in {"TASK", "QUESTION", "CHAT"}

\* C27: in every state of a run, every step index below the cursor has an
\* entry in tool_outputs, whichever node executed the step.
C27_OutputsBelowCursor ==
    \A i \in 0..(Idx(st) - 1) : StepKey(i) \in DOMAIN Outputs(st)

\* C28: within one run the Classifier executes exactly once and first; then
\* either the Responder executes exactly once and the run ends, or the
\* Planner executes exactly once and the steps of the plan are executed in
\* increasing index order, one per tick, each exactly once and by the node
\* matching its role; every tick executes exactly the one node the driver
\* points at.
C28_ExecutionOrder ==
    [][LET n == Len(executed)
           ended == pc \in {END, "raised", "returned"}
           order ==
               /\ (n = 0) <=> (pc \in {"idle", "classifier"})
               /\ n >= 1 => /\ executed[1] = "classifier"
                            /\ \A k \in 2..n : executed[k] # "classifier"
               /\ (n = 1) => pc \in {"responder", "planner"}
               /\ n >= 2 =>
                     \/ /\ executed[2] = "responder"
                        /\ n = 2
                        /\ ended
                     \/ /\ executed[2] = "planner"
                        /\ n - 2 <= Len(PlanOf(st))
                        /\ Idx(st) = n - 2
                        /\ \A k \in 3..n :
                              executed[k] = IF PlanOf(st)[k - 2].role = "Actor"
                                            THEN "actor" ELSE "auditor"
                        /\ (ended /\ pc # "raised" /\ result # None)
                               => n - 2 = Len(PlanOf(st))
                        /\ ~ended => pc = IF PlanOf(st)[n - 1].role = "Actor"
                                          THEN "actor" ELSE "auditor"
       IN  /\ order
           /\ order'
           /\ \/ executed' = executed
              \/ /\ pc \in {"classifier", "responder", "planner",
                            "actor", "auditor"}
                 /\ executed' = Append(executed, pc)]_vars

C28_Witness ==
    /\ pc = "returned"
    /\ result = "state"
    /\ Len(PlanOf(st)) = 3
    /\ executed = <<"classifier", "planner", "actor", "auditor", "actor">>
    /\ Idx(st) = 3

\* C30: after any sequence of register_skill calls, every non-core skill in
\* the primary index whose name is also in the core index has
\* overrides_core = true, and every skill with overrides_core = true has a
\* core skill of the same name in the core index (registered before it).
C30_OverridesCoreInvariant ==
    \A name \in DOMAIN registry.skills :
        LET skill == registry.skills[name]
        IN  /\ (~skill.is_core /\ name \in DOMAIN registry.core_skills)
                => skill.overrides_core
            /\ skill.overrides_core
                => /\ ~skill.is_core
                   /\ name \in DOMAIN registry.core_skills

\* C29: whatever strategy name the auditor LLM returns, the result the
\* Auditor reports comes from the predicate the fixed table names: each of
\* the three file strategies from the predicate of that exact name, every
\* other name (unknown, missing, verify_tool_output_success) from
\* verify_tool_output_success applied to the recorded output of step
\* current_step_index - 1; no other result is ever reported.
C29_StrategyDispatch ==
    [][pc = "auditor" =>
          LET prev_output == Get(Outputs(st), StepKey(Idx(st) - 1), "")
              generic == IF prev_output = "Error: boom"
                         THEN "FAIL: Previous step reported error."
                         ELSE "PASS: Previous step executed successfully."
          IN  console' \in
                  {"auditor: verification failed"}
                  \cup {"auditor: verify_file_exists: " \o m :
                           m \in {"PASS: File exists.",
                                  "FAIL: File NOT found."}}
                  \cup {"auditor: verify_file_content_contains: " \o m :
                           m \in {"PASS: File contains expected text.",
                                  "FAIL: File content mismatch.",
                                  "FAIL: File does not exist.",
                                  "FAIL: Error reading file."}}
                  \cup {"auditor: verify_file_does_not_exist: " \o m :
                           m \in {"PASS: File correctly does not exist.",
                                  "FAIL: File exists but should not."}}
                  \cup {"auditor: " \o name \o ": " \o generic :
                           name \in {"verify_tool_output_success",
                                     "verify_everything", None}}]_vars

C29_Witness ==
    /\ console = "auditor: verify_everything: FAIL: Previous step reported error."
    /\ Idx(st) = 2
    /\ Outputs(st)[StepKey(0)] = "Error: boom"

\* C31: after a directory scan, every manifest-dir skill loaded in that
\* scan is still the registry's entry for its name, with its
\* prompt_instructions (a single-file skill of the same declared name was
\* skipped), and no skill in the registry was loaded from a file whose name
\* begins with "__".
C31_ScanKeepsManifestSkill ==
    [][call'.op = "scan_directory" =>
          /\ \A k \in 1..Len(call'.items) :
                call'.items[k].name # "" =>
                    /\ registry'.skills[call'.items[k].name].module_path
                           = call'.items[k].path
                    /\ registry'.skills[call'.items[k].name].prompt_instructions
                           = call'.items[k].body
          /\ \A name \in DOMAIN registry'.skills :
                ~starts_with_dunder(registry'.skills[name].module_path)
      ]_vars

\* C32: after each append_log, compaction is reported eligible exactly when
\* LOG.md is larger than 50 KB or more than 100 log_metadata rows are
\* uncompacted (100 rows do not trigger, 101 do), and the check changes
\* nothing: LOG.md, the rows and the COLD tier are as the append left them.
C32_CompactionEligibility ==
    [][(call'.op = "append_log" /\ calls' = calls + 1) =>
          LET before == disk[memory_path(TestAgent)]
              after == disk'[memory_path(TestAgent)]
          IN  /\ call'.compaction_needed
                     <=> (\/ call'.st_size > 50 * 1024
                          \/ Uncompacted(after) > 100)
              /\ (Uncompacted(after) = 100 /\ call'.st_size <= 50 * 1024)
                     => ~call'.compaction_needed
              /\ (Uncompacted(after) = 101) => call'.compaction_needed
              /\ after.log = Append(before.log, "THOUGHT")
              /\ Uncompacted(after) = Uncompacted(before) + 1
              /\ after.compaction_history = before.compaction_history
              /\ after.tables = before.tables]_vars

C32_Witness ==
    /\ call.op = "append_log"
    /\ call.compaction_needed
    /\ call.st_size = 1024
    /\ Uncompacted(disk[memory_path(TestAgent)]) = 101

\* C33: for a LOG.md holding at least n appended entries (n >= 1),
\* read_log(n) returns exactly the n most recently appended entries in
\* append order, and read_log changes no memory state.
C33_ReadLogTail ==
    [][(call'.op = "read_log" /\ call'.last_n_entries >= 1) =>
          LET dir == disk[memory_path(TestAgent)]
              n == call'.last_n_entries
              appended == IF dir.log # <<>> /\ Head(dir.log) \in Summaries
                          THEN Tail(dir.log) ELSE dir.log
              returned == SelectSeq(call'.returns,
                                    LAMBDA b : b \notin {Separator, LogHeader})
          IN  /\ disk' = disk
              /\ Len(appended) >= n
                    => returned = [k \in 1..n |->
                                      appended[Len(appended) - n + k]]]_vars

\* C34: wherever execution is cut inside append_log, update_now or
\* compact_log, the memory left behind is consistent: every entry block in
\* LOG.md has its log_metadata row, that row is not marked compacted, and
\* LOG.md starts with a summary exactly when a compaction_history row
\* exists.
C34_CutLeavesConsistentMemory ==
    pc = "cut" =>
        LET dir == disk[memory_path(TestAgent)]
            summarised == dir.log # <<>> /\ Head(dir.log) \in Summaries
            blocks == IF summarised THEN Tail(dir.log) ELSE dir.log
            rows == dir.log_metadata
            first == Len(rows) - Len(blocks)
        IN  /\ first >= 0
            /\ \A k \in 1..Len(blocks) :
                  /\ rows[first + k].entry_type = blocks[k]
                  /\ ~rows[first + k].compacted
            /\ summarised <=> dir.compaction_history # <<>>

\* C35: every run terminates: it executes at most len(plan) + 2 node ticks
\* and then reaches the terminal state, whatever the nodes' outcomes are.
C35_RunTerminates ==
    /\ [](Len(executed) <= Len(PlanOf(st)) + 2)
    /\ <>(pc = "returned")

C35_Witness ==
    /\ pc = "returned"
    /\ Len(PlanOf(st)) = 3
    /\ Len(executed) = 5
    /\ executed[4] = "auditor"
    /\ console = "auditor: verification failed"

\* C36: the base URL is loaded with only a trailing "/v1" or "/api" suffix
\* and trailing slashes removed: the loaded value is the input minus that
\* suffix, every other character kept, so a URL without such a suffix is
\* loaded unchanged.
C36_BaseUrlSuffixOnly ==
    call.op = "from_env" =>
        LET EndsWith(s, t) ==
                Len(s) >= Len(t) /\ SubSeq(s, Len(s) - Len(t) + 1, Len(s)) = t
            Drop(s, t) ==
                IF EndsWith(s, t) THEN SubSeq(s, 1, Len(s) - Len(t)) ELSE s
            url == call.env
            no_slash == Drop(url, <<"/">>)
            no_suffix == Drop(Drop(no_slash, <<"/", "v", "1">>),
                              <<"/", "a", "p", "i">>)
        IN  call.OLLAMA_BASE_URL = no_suffix

\* C37: when runs on distinct agents interleave, each run's trace is
\* completed with only that run's spans and both traces end up in the
\* saved trace list: once every run has ended, the traces file holds, for
\* each run, one trace of that run whose spans are exactly the spans the
\* run added.
C37_TracesPerRun ==
    (\A a \in AgentNames : pc[a].at = "done") =>
        \A a \in AgentNames :
            \E k \in 1..Len(tracer.file) :
                /\ tracer.file[k].metadata.agent = a
                /\ Len(tracer.file[k].spans) = pc[a].spans
                /\ \A j \in 1..Len(tracer.file[k].spans) :
                      tracer.file[k].spans[j].details.input = IntentOf(a)

\* C38: after any sequence of completed append_log, update_now and
\* compact_log calls on one manager (no call cut short), the number of
\* uncompacted log_metadata rows equals the number of entry blocks in
\* LOG.md: every call that writes an entry adds one of each, and
\* compact_log resets both to zero.
C38_RowsMatchBlocks ==
    (pc = "memory" /\ console = "") =>
        LET dir == disk[memory_path(TestAgent)]
            blocks == IF dir.log # <<>> /\ Head(dir.log) \in Summaries
                      THEN Tail(dir.log) ELSE dir.log
        IN  Uncompacted(dir) = Len(blocks)

\* C39: every compaction_history row with a non-null archive_id names a
\* record of the agent's COLD table: the table holds a record under that id.
C39_ArchiveIdResolves ==
    LET dir == disk[memory_path(TestAgent)]
    IN  \A n \in 1..Len(dir.compaction_history) :
            dir.compaction_history[n].archive_id # None =>
                dir.compaction_history[n].archive_id
                    \in record_ids(dir, TestAgent)

\* C40: initialize_agent_memory returns True when the agent had no memory
\* directory and leaves NOW.md with status "Initialized and ready"; when the
\* directory exists and force is false it returns False and NOW.md, LOG.md
\* and the fact store are unchanged.
C40_InitializeAgentMemory ==
    [][call'.op = "initialize_agent_memory" =>
          LET p == memory_path(call'.agent)
              old == disk[p]
              new == disk'[p]
          IN  /\ old = NoDirectory =>
                    /\ call'.returns = TRUE
                    /\ StatusLines(new.now) = <<StatusInitialized>>
              /\ (old # NoDirectory /\ ~call'.force) =>
                    /\ call'.returns = FALSE
                    /\ new = old]_vars

====
